---------------------------- MODULE Spec2Model ----------------------------
(***************************************************************************)
(* Model of the domain-scoring engine of domain-wise-inspector             *)
(* (src/src/utils/seoAnalyzer.ts): analyzeDomain, compareDomains and the    *)
(* helpers they call; of its accounts (src/src/context/AuthContext.tsx),    *)
(* variable auth; and of the page that starts the analyses                  *)
(* (src/unnamed/part_006), variable analyzer.                               *)
(*                                                                          *)
(* Strings are sequences of one-character strings.  JavaScript numbers are  *)
(* exact rationals <<numerator, denominator>> in lowest terms with a        *)
(* positive denominator; <<0, 0>> is NaN.                                   *)
(*                                                                          *)
(* An operator that uses an argument several times binds it first, as in    *)
(*   CHOOSE r \in {e(a) : a \in {x}} : TRUE                                  *)
(* which is e(x) with x evaluated once.                                     *)
(***************************************************************************)
EXTENDS Integers, Sequences, FiniteSets, TLC

VARIABLES call, tasks, pricingCalls, probe, auth, analyzer

vars == <<call, tasks, pricingCalls, probe, auth, analyzer>>

(***************************************************************************)
(* Bounds of the model.                                                     *)
(***************************************************************************)
\* number of tokens a generated raw input is concatenated from
MaxTokens == 3
\* largest number of leading hyphens in the padded family "--...-ai.x"
MaxPad == 27
\* largest list passed to compareDomains
MaxDomains == 2
\* largest length passed directly to calculateLengthScore
MaxLength == 40

(***************************************************************************)
(* JavaScript strings                                                       *)
(***************************************************************************)
UpperCase ==
  <<"A", "B", "C", "D", "E", "F", "G", "H", "I", "J", "K", "L", "M",
    "N", "O", "P", "Q", "R", "S", "T", "U", "V", "W", "X", "Y", "Z">>

LowerCase ==
  <<"a", "b", "c", "d", "e", "f", "g", "h", "i", "j", "k", "l", "m",
    "n", "o", "p", "q", "r", "s", "t", "u", "v", "w", "x", "y", "z">>

WhiteSpace == {" ", "\t", "\n"}

Digits == {"0", "1", "2", "3", "4", "5", "6", "7", "8", "9"}

\* String.prototype.toLowerCase
toLowerCase(s) ==
  [i \in 1..Len(s) |->
     IF \E k \in 1..26 : UpperCase[k] = s[i]
       THEN LowerCase[CHOOSE k \in 1..26 : UpperCase[k] = s[i]]
       ELSE s[i]]

\* String.prototype.trim
trim(s) ==
  LET keep == {i \in 1..Len(s) : s[i] \notin WhiteSpace}
  IN  IF keep = {} THEN <<>>
      ELSE SubSeq(s, CHOOSE i \in keep : \A j \in keep : i <= j,
                     CHOOSE i \in keep : \A j \in keep : j <= i)

\* String.prototype.substring(from, to), 0-based, end exclusive
substring(s, from, to) == SubSeq(s, from + 1, to)

\* String.prototype.substring(from)
substringFrom(s, from) == SubSeq(s, from + 1, Len(s))

\* String.prototype.indexOf for a one-character needle: 0-based, -1 if absent
indexOf(s, c) ==
  LET hits == {i \in 1..Len(s) : s[i] = c}
  IN  IF hits = {} THEN -1
      ELSE (CHOOSE i \in hits : \A j \in hits : i <= j) - 1

\* String.prototype.lastIndexOf for a one-character needle
lastIndexOf(s, c) ==
  LET hits == {i \in 1..Len(s) : s[i] = c}
  IN  IF hits = {} THEN -1
      ELSE (CHOOSE i \in hits : \A j \in hits : j <= i) - 1

\* String.prototype.startsWith
startsWith(s, p) == Len(s) >= Len(p) /\ SubSeq(s, 1, Len(p)) = p

\* String.prototype.includes
includes(s, sub) ==
  \E i \in 1..(Len(s) - Len(sub) + 1) : SubSeq(s, i, i + Len(sub) - 1) = sub

\* the elements of a set of integers in increasing order
ascending(S) ==
  [k \in 1..Cardinality(S) |->
     CHOOSE x \in S : Cardinality({y \in S : y < x}) = k - 1]

\* String.prototype.split on any one of the separator characters seps
split(s, seps) ==
  CHOOSE r \in
    { [k \in 1..(Len(cuts) + 1) |->
         SubSeq(str, IF k = 1 THEN 1 ELSE cuts[k - 1] + 1,
                     IF k = Len(cuts) + 1 THEN Len(str) ELSE cuts[k] - 1)]
      : str \in {s}, cuts \in {ascending({i \in 1..Len(s) : s[i] \in seps})} } : TRUE

\* Array.prototype.includes
arrayIncludes(arr, x) == \E i \in 1..Len(arr) : arr[i] = x

\* (s.match(/[class]/g) || []).length
countOf(s, class) == Cardinality({i \in 1..Len(s) : s[i] \in class})

(***************************************************************************)
(* JavaScript numbers                                                       *)
(***************************************************************************)
NaN == <<0, 0>>

isNaN(x) == x[2] = 0

Abs(n) == IF n < 0 THEN -n ELSE n

RECURSIVE GCD(_, _)
GCD(a, b) ==
  IF b = 0 THEN a ELSE CHOOSE g \in {GCD(m, n) : m \in {b}, n \in {a % b}} : TRUE

\* the rational n/d, d > 0, in lowest terms
Frac(n, d) ==
  CHOOSE r \in {<<n \div g, d \div g>> : g \in {GCD(Abs(n), d)}} : TRUE

Num(n) == <<n, 1>>

Plus(x, y) ==
  CHOOSE r \in
    { IF isNaN(a) \/ isNaN(b) THEN NaN
      ELSE Frac(a[1] * b[2] + b[1] * a[2], a[2] * b[2]) : a \in {x}, b \in {y} } : TRUE

Minus(x, y) ==
  CHOOSE r \in
    { IF isNaN(a) \/ isNaN(b) THEN NaN
      ELSE Frac(a[1] * b[2] - b[1] * a[2], a[2] * b[2]) : a \in {x}, b \in {y} } : TRUE

Times(x, y) ==
  CHOOSE r \in
    { IF isNaN(a) \/ isNaN(b) THEN NaN
      ELSE Frac(a[1] * b[1], a[2] * b[2]) : a \in {x}, b \in {y} } : TRUE

\* x / y for y # 0
Over(x, y) ==
  CHOOSE r \in
    { IF isNaN(a) \/ isNaN(b) THEN NaN
      ELSE IF b[1] < 0 THEN Frac(-(a[1] * b[2]), a[2] * (-b[1]))
      ELSE Frac(a[1] * b[2], a[2] * b[1]) : a \in {x}, b \in {y} } : TRUE

\* comparisons: every comparison with NaN is false
Lt(x, y) ==
  \E a \in {x}, b \in {y} : ~isNaN(a) /\ ~isNaN(b) /\ a[1] * b[2] < b[1] * a[2]
Le(x, y) ==
  \E a \in {x}, b \in {y} : ~isNaN(a) /\ ~isNaN(b) /\ a[1] * b[2] <= b[1] * a[2]
Gt(x, y) == Lt(y, x)
Ge(x, y) == Le(y, x)

\* Math.max, Math.min: NaN if an argument is NaN
MathMax(x, y) ==
  CHOOSE r \in
    { IF isNaN(a) \/ isNaN(b) THEN NaN ELSE IF Lt(a, b) THEN b ELSE a
      : a \in {x}, b \in {y} } : TRUE
MathMin(x, y) ==
  CHOOSE r \in
    { IF isNaN(a) \/ isNaN(b) THEN NaN ELSE IF Lt(b, a) THEN b ELSE a
      : a \in {x}, b \in {y} } : TRUE

\* Math.round: floor(x + 1/2)
MathRound(x) ==
  CHOOSE r \in
    { IF isNaN(a) THEN NaN ELSE Num((2 * a[1] + a[2]) \div (2 * a[2])) : a \in {x} } : TRUE

isInteger(x) == x[2] = 1

(***************************************************************************)
(* Domain normalizer                                                        *)
(***************************************************************************)
\* domain.replace(/^(https?:\/\/)?(www\.)?/, '')
stripSchemeAndWww(domain) ==
  LET afterScheme ==
        IF startsWith(domain, <<"h", "t", "t", "p", "s", ":", "/", "/">>)
          THEN substringFrom(domain, 8)
        ELSE IF startsWith(domain, <<"h", "t", "t", "p", ":", "/", "/">>)
          THEN substringFrom(domain, 7)
        ELSE domain
  IN  IF startsWith(afterScheme, <<"w", "w", "w", ".">>)
        THEN substringFrom(afterScheme, 4)
        ELSE afterScheme

\* cleanDomainName, up to the dot check: trim, lower-case, strip the scheme
\* and www, cut at the first slash
cleanedForm(url) ==
  LET lowered    == toLowerCase(trim(url))
      stripped   == stripSchemeAndWww(lowered)
      slashIndex == indexOf(stripped, "/")
  IN  IF slashIndex # -1 THEN substring(stripped, 0, slashIndex) ELSE stripped

\* cleanDomainName without its dot check
cleanDomainName_noDotCheck(url) == cleanedForm(url)

\* cleanDomainName checking for the dot before it cuts the path
cleanDomainName_dotCheckBeforeCut(url) ==
  LET stripped == stripSchemeAndWww(toLowerCase(trim(url)))
  IN  IF ~includes(stripped, <<".">>) THEN <<>> ELSE cleanedForm(url)

\* cleanDomainName(url): '' (the empty sequence) when there is no dot
cleanDomainName(url) ==
  LET domain == cleanedForm(url)
  IN  IF ~includes(domain, <<".">>) THEN <<>> ELSE domain

\* splitDomain splitting at the first dot
splitDomain_firstDot(domain) ==
  LET dotIndex == indexOf(domain, ".")
  IN  IF dotIndex = -1 THEN <<domain, <<>>>>
      ELSE <<substring(domain, 0, dotIndex), substringFrom(domain, dotIndex + 1)>>

\* splitDomain leaving the dot in the extension
splitDomain_keepsDot(domain) ==
  LET lastDotIndex == lastIndexOf(domain, ".")
  IN  IF lastDotIndex = -1 THEN <<domain, <<>>>>
      ELSE <<substring(domain, 0, lastDotIndex), substringFrom(domain, lastDotIndex)>>

\* splitDomain(domain) = [name, extension]
splitDomain(domain) ==
  LET lastDotIndex == lastIndexOf(domain, ".")
  IN  IF lastDotIndex = -1 THEN <<domain, <<>>>>
      ELSE <<substring(domain, 0, lastDotIndex),
             substringFrom(domain, lastDotIndex + 1)>>


(***************************************************************************)
(* Metric calculators                                                       *)
(***************************************************************************)
SEO_FRIENDLY_KEYWORDS ==
  << <<"s", "e", "o">>,
     <<"s", "e", "a", "r", "c", "h">>,
     <<"r", "a", "n", "k">>,
     <<"a", "n", "a", "l", "y", "t", "i", "c", "s">>,
     <<"d", "i", "g", "i", "t", "a", "l">>,
     <<"w", "e", "b">>,
     <<"a", "p", "p">>,
     <<"t", "e", "c", "h">>,
     <<"o", "n", "l", "i", "n", "e">>,
     <<"c", "y", "b", "e", "r">>,
     <<"d", "a", "t", "a">>,
     <<"c", "l", "o", "u", "d">>,
     <<"s", "m", "a", "r", "t">>,
     <<"a", "i">>,
     <<"m", "o", "b", "i", "l", "e">>,
     <<"s", "o", "c", "i", "a", "l">>,
     <<"b", "l", "o", "g">>,
     <<"c", "o", "n", "t", "e", "n", "t">>,
     <<"m", "a", "r", "k", "e", "t", "i", "n", "g">>,
     <<"b", "u", "s", "i", "n", "e", "s", "s">>,
     <<"m", "a", "r", "k", "e", "t">>,
     <<"s", "h", "o", "p">>,
     <<"s", "t", "o", "r", "e">>,
     <<"l", "e", "a", "r", "n">>,
     <<"e", "d", "u">>,
     <<"p", "r", "o">>,
     <<"e", "x", "p", "e", "r", "t">>,
     <<"h", "e", "l", "p">>,
     <<"s", "o", "l", "u", "t", "i", "o", "n", "s">>,
     <<"s", "e", "r", "v", "i", "c", "e">> >>

\* the own properties of the TLD_SCORES object
TLD_SCORES ==
  (<<"c", "o", "m">> :> 10) @@ (<<"o", "r", "g">> :> 8) @@
  (<<"n", "e", "t">> :> 7) @@ (<<"i", "o">> :> 8) @@
  (<<"c", "o">> :> 7) @@ (<<"a", "p", "p">> :> 9) @@
  (<<"a", "i">> :> 9) @@ (<<"d", "e", "v">> :> 8) @@
  (<<"t", "e", "c", "h">> :> 8) @@
  (<<"d", "i", "g", "i", "t", "a", "l">> :> 7) @@
  (<<"a", "g", "e", "n", "c", "y">> :> 7) @@
  (<<"s", "t", "o", "r", "e">> :> 7) @@ (<<"s", "h", "o", "p">> :> 7)

\* the all-lower-case keys TLD_SCORES inherits from Object.prototype: looking
\* one up yields an object, which is truthy and not a number
InheritedKeys ==
  { <<"c", "o", "n", "s", "t", "r", "u", "c", "t", "o", "r">>,
    <<"_", "_", "p", "r", "o", "t", "o", "_", "_">> }

\* TLD_SCORES[extension] || 5
extensionScoreOf(extension) ==
  IF extension \in DOMAIN TLD_SCORES THEN Num(TLD_SCORES[extension])
  ELSE IF extension \in InheritedKeys THEN NaN
  ELSE Num(5)

\* calculateLengthScore with the ideal band taken exclusive
calculateLengthScore_strictBand(length) ==
  IF length > 6 /\ length < 14 THEN Num(10)
  ELSE IF length < 6 THEN MathMax(Num(5), Num(length))
  ELSE MathMax(Num(1), Minus(Num(14), Times(Num(length - 14), Frac(1, 2))))

calculateLengthScore(length) ==
  IF length >= 6 /\ length <= 14 THEN Num(10)
  ELSE IF length < 6 THEN MathMax(Num(5), Num(length))
  ELSE MathMax(Num(1), Minus(Num(14), Times(Num(length - 14), Frac(1, 2))))

Vowels == {"a", "e", "i", "o", "u", "A", "E", "I", "O", "U"}

\* vowels / (consonants || 1)
vcRatioOf(name) ==
  LET hyphens    == countOf(name, {"-"})
      digits     == countOf(name, Digits)
      vowels     == countOf(name, Vowels)
      consonants == Len(name) - vowels - hyphens - digits
  IN  Over(Num(vowels), Num(IF consonants # 0 THEN consonants ELSE 1))

\* vcRatioScore falling from 10 at the band edges, 20 points per unit
vcRatioScoreOf_from10(name) ==
  CHOOSE r \in
    { IF Ge(vcRatio, Frac(4, 10)) /\ Le(vcRatio, Frac(6, 10)) THEN Num(10)
      ELSE IF Gt(vcRatio, Frac(6, 10))
        THEN Minus(Num(10), Times(Minus(vcRatio, Frac(6, 10)), Num(20)))
        ELSE Minus(Num(10), Times(Minus(Frac(4, 10), vcRatio), Num(20)))
      : vcRatio \in {vcRatioOf(name)} } : TRUE

\* vcRatioScore of calculateMemorabilityScore
vcRatioScoreOf(name) ==
  CHOOSE r \in
    { IF Ge(vcRatio, Frac(4, 10)) /\ Le(vcRatio, Frac(6, 10)) THEN Num(10)
      ELSE IF Gt(vcRatio, Frac(6, 10))
        THEN Minus(Num(8), Times(MathMin(Num(3), Minus(vcRatio, Frac(6, 10))), Num(2)))
        ELSE Minus(Num(8), Times(MathMin(Num(3), Minus(Frac(4, 10), vcRatio)), Num(2)))
      : vcRatio \in {vcRatioOf(name)} } : TRUE

\* calculateMemorabilityScore with the digit penalty not capped at 5
calculateMemorabilityScore_digitsUncapped(name) ==
  LET hyphens       == countOf(name, {"-"})
      digits        == countOf(name, Digits)
      vcRatioScore  == vcRatioScoreOf(name)
      hyphenPenalty == MathMin(Num(5), Times(Num(hyphens), Frac(3, 2)))
      digitPenalty  == Num(digits)
  IN  MathMax(Num(1),
        Plus(Minus(Minus(Num(10), Times(hyphenPenalty, Frac(1, 2))),
                   Times(digitPenalty, Frac(3, 10))),
             Times(vcRatioScore, Frac(2, 10))))

\* calculateMemorabilityScore with the hyphen penalty not capped at 5
calculateMemorabilityScore_hyphensUncapped(name) ==
  LET hyphens       == countOf(name, {"-"})
      digits        == countOf(name, Digits)
      vcRatioScore  == vcRatioScoreOf(name)
      hyphenPenalty == Times(Num(hyphens), Frac(3, 2))
      digitPenalty  == MathMin(Num(5), Num(digits))
  IN  MathMax(Num(1),
        Plus(Minus(Minus(Num(10), Times(hyphenPenalty, Frac(1, 2))),
                   Times(digitPenalty, Frac(3, 10))),
             Times(vcRatioScore, Frac(2, 10))))

calculateMemorabilityScore(name) ==
  LET hyphens       == countOf(name, {"-"})
      digits        == countOf(name, Digits)
      vcRatioScore  == vcRatioScoreOf(name)
      hyphenPenalty == MathMin(Num(5), Times(Num(hyphens), Frac(3, 2)))
      digitPenalty  == MathMin(Num(5), Num(digits))
  IN  MathMax(Num(1),
        Plus(Minus(Minus(Num(10), Times(hyphenPenalty, Frac(1, 2))),
                   Times(digitPenalty, Frac(3, 10))),
             Times(vcRatioScore, Frac(2, 10))))

\* /[^a-z0-9-]/.test(name)
hasSpecialCharsOf(name) ==
  \E i \in 1..Len(name) :
     /\ ~(\E k \in 1..26 : LowerCase[k] = name[i])
     /\ name[i] \notin Digits
     /\ name[i] # "-"

\* 10 - (hasNumbers ? 3 : 0) - (hasSpecialChars ? 5 : 0)
cleanlinessScoreOf(name) ==
  LET hasSpecialChars == hasSpecialCharsOf(name)
      hasNumbers      == \E i \in 1..Len(name) : name[i] \in Digits
  IN  Num(10 - (IF hasNumbers THEN 3 ELSE 0) - (IF hasSpecialChars THEN 5 ELSE 0))

\* calculateBrandabilityScore with the weights of uniqueness and length swapped
calculateBrandabilityScore_weightsSwapped(name) ==
  LET words           == split(name, {"-"})
      commonWordCount ==
        Cardinality({i \in 1..Len(words) : arrayIncludes(SEO_FRIENDLY_KEYWORDS, words[i])})
      uniquenessScore == Minus(Num(10), MathMin(Num(5), Num(commonWordCount * 2)))
      lengthScore ==
        IF Len(name) > 3 /\ Len(name) < 12 THEN Num(10)
        ELSE IF Len(name) <= 3 THEN Num(7)
        ELSE Minus(Num(10), MathMin(Num(5), Times(Num(Len(name) - 12), Frac(1, 2))))
      cleanlinessScore == cleanlinessScoreOf(name)
  IN  MathMax(Num(1),
        Plus(Plus(Times(uniquenessScore, Frac(3, 10)), Times(lengthScore, Frac(4, 10))),
             Times(cleanlinessScore, Frac(3, 10))))

calculateBrandabilityScore(name) ==
  LET words           == split(name, {"-"})
      commonWordCount ==
        Cardinality({i \in 1..Len(words) : arrayIncludes(SEO_FRIENDLY_KEYWORDS, words[i])})
      uniquenessScore == Minus(Num(10), MathMin(Num(5), Num(commonWordCount * 2)))
      lengthScore ==
        IF Len(name) > 3 /\ Len(name) < 12 THEN Num(10)
        ELSE IF Len(name) <= 3 THEN Num(7)
        ELSE Minus(Num(10), MathMin(Num(5), Times(Num(Len(name) - 12), Frac(1, 2))))
      cleanlinessScore == cleanlinessScoreOf(name)
  IN  MathMax(Num(1),
        Plus(Plus(Times(uniquenessScore, Frac(4, 10)), Times(lengthScore, Frac(3, 10))),
             Times(cleanlinessScore, Frac(3, 10))))

\* calculateKeywordPlacementScore splitting on the hyphen only
calculateKeywordPlacementScore_hyphenOnly(name) ==
  LET words == split(name, {"-"})
      hits  == {i \in 1..Len(words) : arrayIncludes(SEO_FRIENDLY_KEYWORDS, words[i])}
  IN  IF hits # {}
        THEN Num(10 - ((CHOOSE i \in hits : \A j \in hits : i <= j) - 1) * 2)
        ELSE Num(3)

\* calculateKeywordPlacementScore with 5 as the score of a name without
\* keyword segment
calculateKeywordPlacementScore_defaultFive(name) ==
  LET words == split(name, {"-", "_", "."})
      hits  == {i \in 1..Len(words) : arrayIncludes(SEO_FRIENDLY_KEYWORDS, words[i])}
  IN  IF hits # {}
        THEN Num(10 - ((CHOOSE i \in hits : \A j \in hits : i <= j) - 1) * 2)
        ELSE Num(5)

calculateKeywordPlacementScore(name) ==
  LET words == split(name, {"-", "_", "."})
      hits  == {i \in 1..Len(words) : arrayIncludes(SEO_FRIENDLY_KEYWORDS, words[i])}
  IN  IF hits # {}
        THEN Num(10 - ((CHOOSE i \in hits : \A j \in hits : i <= j) - 1) * 2)
        ELSE Num(3)

\* hasKeywords looking at whole segments only
hasKeywordsOf_segmentsOnly(name) ==
  \E k \in 1..Len(SEO_FRIENDLY_KEYWORDS) :
     \/ arrayIncludes(split(name, {"-"}), SEO_FRIENDLY_KEYWORDS[k])
     \/ arrayIncludes(split(name, {"."}), SEO_FRIENDLY_KEYWORDS[k])

\* SEO_FRIENDLY_KEYWORDS.some(keyword => name.includes(keyword) || ...)
hasKeywordsOf(name) ==
  \E k \in 1..Len(SEO_FRIENDLY_KEYWORDS) :
     \/ includes(name, SEO_FRIENDLY_KEYWORDS[k])
     \/ arrayIncludes(split(name, {"-"}), SEO_FRIENDLY_KEYWORDS[k])
     \/ arrayIncludes(split(name, {"."}), SEO_FRIENDLY_KEYWORDS[k])

\* the weighted sum with the keyword term weighted 0.15
rawScoreOf_keywordWeight(lengthScore, hasKeywords, memorability, brandability, keywordPlacement, extensionScore) ==
  Plus(Plus(Plus(Plus(Plus(
    Times(lengthScore, Frac(15, 100)),
    Times(Num(IF hasKeywords THEN 7 ELSE 3), Frac(15, 100))),
    Times(memorability, Frac(2, 10))),
    Times(brandability, Frac(15, 100))),
    Times(keywordPlacement, Frac(15, 100))),
    Times(extensionScore, Frac(15, 100)))

\* the weighted sum of calculateSEOMetrics, before rounding
rawScoreOf(lengthScore, hasKeywords, memorability, brandability, keywordPlacement, extensionScore) ==
  Plus(Plus(Plus(Plus(Plus(
    Times(lengthScore, Frac(15, 100)),
    Times(Num(IF hasKeywords THEN 7 ELSE 3), Frac(2, 10))),
    Times(memorability, Frac(2, 10))),
    Times(brandability, Frac(15, 100))),
    Times(keywordPlacement, Frac(15, 100))),
    Times(extensionScore, Frac(15, 100)))

calculateSEOMetrics(name, extension) ==
  LET lengthScore      == calculateLengthScore(Len(name))
      hasKeywords      == hasKeywordsOf(name)
      memorability     == calculateMemorabilityScore(name)
      brandability     == calculateBrandabilityScore(name)
      keywordPlacement == calculateKeywordPlacementScore(name)
      extensionScore   == extensionScoreOf(extension)
      rawScore         == rawScoreOf(lengthScore, hasKeywords, memorability,
                                     brandability, keywordPlacement, extensionScore)
  IN  [length           |-> lengthScore,
       hasKeywords      |-> hasKeywords,
       memorability     |-> memorability,
       brandability     |-> brandability,
       keywordPlacement |-> keywordPlacement,
       domainExtension  |-> extensionScore,
       overallScore     |-> MathRound(rawScore)]

(***************************************************************************)
(* Insight generator.  An item is its display string; a detail text is a    *)
(* pair <<text, extension>>: the name of the fixed text and the extension   *)
(* interpolated into it (the empty string when the text has no parameter).  *)
(***************************************************************************)
\* [ x for which cond ] of a list of <<cond, x>> pairs, in order
RECURSIVE pushAll(_)
pushAll(rules) ==
  IF rules = <<>> THEN <<>>
  ELSE (IF rules[1][1] THEN <<rules[1][2]>> ELSE <<>>) \o pushAll(Tail(rules))

Range(seq) == {seq[i] : i \in 1..Len(seq)}

generateRecommendations(metrics, name, extension) ==
  pushAll(<<
    <<Lt(metrics.length, Num(7)),
      "Consider a slightly longer domain name for better SEO impact.">>,
    <<Gt(metrics.length, Num(9)),
      "Shorter domain names are typically more memorable and easier to type.">>,
    <<~metrics.hasKeywords,
      "Including relevant keywords in your domain can improve SEO performance.">>,
    <<Lt(metrics.memorability, Num(7)),
      "A more memorable domain name will help users find your site again.">>,
    <<Lt(metrics.brandability, Num(7)),
      "Consider a more unique name that will stand out as a distinct brand.">>,
    <<Lt(metrics.keywordPlacement, Num(5)) /\ metrics.hasKeywords,
      "For better SEO impact, place keywords at the beginning of the domain name.">>,
    <<Lt(metrics.domainExtension, Num(8)) /\ extension # <<"c", "o", "m">>,
      ".com domains generally perform better for SEO and user trust.">>,
    <<Ge(metrics.overallScore, Frac(17, 2)),
      "This is a strong domain name. Focus on building quality content and backlinks.">>
  >>)

\* the branch of the if-chain a recommendation string selects
\* (recommendation.includes("longer domain"), ...)
recommendationDetail(recommendation, extension) ==
  CASE recommendation = "Consider a slightly longer domain name for better SEO impact."
         -> <<"longer domain", <<>>>>
    [] recommendation = "Shorter domain names are typically more memorable and easier to type."
         -> <<"Shorter domain", <<>>>>
    [] recommendation = "Including relevant keywords in your domain can improve SEO performance."
         -> <<"keywords in your domain", <<>>>>
    [] recommendation = "A more memorable domain name will help users find your site again."
         -> <<"memorable domain", <<>>>>
    [] recommendation = "Consider a more unique name that will stand out as a distinct brand."
         -> <<"unique name", <<>>>>
    [] recommendation = "For better SEO impact, place keywords at the beginning of the domain name."
         -> <<"keywords at the beginning", <<>>>>
    [] recommendation = ".com domains generally perform better for SEO and user trust."
         -> <<".com domains", extension>>
    [] recommendation = "This is a strong domain name. Focus on building quality content and backlinks."
         -> <<"strong domain name", <<>>>>
    [] OTHER -> <<"default", <<>>>>

generateEnhancedRecommendationDetails(recommendations, metrics, name, extension) ==
  [r \in Range(recommendations) |-> recommendationDetail(r, extension)]

\* the strength rules with the .com rule chained as a last else-branch of
\* the extension rules
strengthRules_comInElse(metrics, name, extension) ==
  <<
    <<Ge(metrics.length, Num(7)), "Good domain length">>,
    <<metrics.hasKeywords, "Contains relevant keywords">>,
    <<Ge(metrics.memorability, Num(8)), "Highly memorable">>,
    <<Ge(metrics.brandability, Num(8)), "Strong branding potential">>,
    <<Ge(metrics.keywordPlacement, Num(8)), "Optimal keyword placement">>,
    <<Ge(metrics.domainExtension, Num(9)), "Premium TLD">>,
    <<~Ge(metrics.domainExtension, Num(9)) /\ Ge(metrics.domainExtension, Num(7)),
      "Solid domain extension">>,
    <<~Ge(metrics.domainExtension, Num(7)) /\ extension = <<"c", "o", "m">>,
      "Uses .com extension">>
  >>

\* the strength rules with the two extension rules as independent ifs
strengthRules_solidNotElse(metrics, name, extension) ==
  <<
    <<Ge(metrics.length, Num(7)), "Good domain length">>,
    <<metrics.hasKeywords, "Contains relevant keywords">>,
    <<Ge(metrics.memorability, Num(8)), "Highly memorable">>,
    <<Ge(metrics.brandability, Num(8)), "Strong branding potential">>,
    <<Ge(metrics.keywordPlacement, Num(8)), "Optimal keyword placement">>,
    <<Ge(metrics.domainExtension, Num(9)), "Premium TLD">>,
    <<Ge(metrics.domainExtension, Num(7)), "Solid domain extension">>,
    <<extension = <<"c", "o", "m">>, "Uses .com extension">>
  >>

strengthRules(metrics, name, extension) ==
  <<
    <<Ge(metrics.length, Num(7)), "Good domain length">>,
    <<metrics.hasKeywords, "Contains relevant keywords">>,
    <<Ge(metrics.memorability, Num(8)), "Highly memorable">>,
    <<Ge(metrics.brandability, Num(8)), "Strong branding potential">>,
    <<Ge(metrics.keywordPlacement, Num(8)), "Optimal keyword placement">>,
    <<Ge(metrics.domainExtension, Num(9)), "Premium TLD">>,
    <<~Ge(metrics.domainExtension, Num(9)) /\ Ge(metrics.domainExtension, Num(7)),
      "Solid domain extension">>,
    <<extension = <<"c", "o", "m">>, "Uses .com extension">>
  >>

\* identifyStrengths recording no detail text for the .com rule
identifyStrengths_noComDetail(metrics, name, extension) ==
  LET strengths == pushAll(strengthRules(metrics, name, extension))
  IN  [strengths |-> strengths,
       strengthDetails |->
         [s \in Range(strengths) \ {"Uses .com extension"} |->
            IF s \in {"Premium TLD", "Solid domain extension"}
              THEN <<s, extension>> ELSE <<s, <<>>>>]]

identifyStrengths(metrics, name, extension) ==
  LET strengths == pushAll(strengthRules(metrics, name, extension))
  IN  [strengths |-> strengths,
       strengthDetails |->
         [s \in Range(strengths) |->
            IF s \in {"Premium TLD", "Solid domain extension"}
              THEN <<s, extension>> ELSE <<s, <<>>>>]]

\* identifyWeaknesses comparing the number of characters of name, not the
\* length score, in its first rule
identifyWeaknesses_nameLength(metrics, name, extension) ==
  LET weaknesses == pushAll(<<
        <<Len(name) < 5, "Very short domain name">>,
        <<~(Len(name) < 5) /\ Gt(metrics.length, Num(12)), "Lengthy domain name">>,
        <<~metrics.hasKeywords, "Lacks relevant keywords">>,
        <<Lt(metrics.memorability, Num(6)), "Low memorability">>,
        <<Lt(metrics.brandability, Num(6)), "Limited branding potential">>,
        <<Lt(metrics.keywordPlacement, Num(5)) /\ metrics.hasKeywords,
          "Suboptimal keyword placement">>,
        <<Lt(metrics.domainExtension, Num(7)), "Less effective TLD">>,
        <<includes(name, <<"-">>), "Contains hyphens">>,
        <<\E i \in 1..Len(name) : name[i] \in Digits, "Contains numbers">>
      >>)
  IN  [weaknesses |-> weaknesses,
       weaknessDetails |->
         [w \in Range(weaknesses) |->
            IF w = "Less effective TLD" THEN <<w, extension>> ELSE <<w, <<>>>>]]

\* identifyWeaknesses testing the name before the metrics
identifyWeaknesses_nameRulesFirst(metrics, name, extension) ==
  LET weaknesses == pushAll(<<
        <<includes(name, <<"-">>), "Contains hyphens">>,
        <<\E i \in 1..Len(name) : name[i] \in Digits, "Contains numbers">>,
        <<Lt(metrics.length, Num(5)), "Very short domain name">>,
        <<~Lt(metrics.length, Num(5)) /\ Gt(metrics.length, Num(12)),
          "Lengthy domain name">>,
        <<~metrics.hasKeywords, "Lacks relevant keywords">>,
        <<Lt(metrics.memorability, Num(6)), "Low memorability">>,
        <<Lt(metrics.brandability, Num(6)), "Limited branding potential">>,
        <<Lt(metrics.keywordPlacement, Num(5)) /\ metrics.hasKeywords,
          "Suboptimal keyword placement">>,
        <<Lt(metrics.domainExtension, Num(7)), "Less effective TLD">>
      >>)
  IN  [weaknesses |-> weaknesses,
       weaknessDetails |->
         [w \in Range(weaknesses) |->
            IF w = "Less effective TLD" THEN <<w, extension>> ELSE <<w, <<>>>>]]

identifyWeaknesses(metrics, name, extension) ==
  LET weaknesses == pushAll(<<
        <<Lt(metrics.length, Num(5)), "Very short domain name">>,
        <<~Lt(metrics.length, Num(5)) /\ Gt(metrics.length, Num(12)),
          "Lengthy domain name">>,
        <<~metrics.hasKeywords, "Lacks relevant keywords">>,
        <<Lt(metrics.memorability, Num(6)), "Low memorability">>,
        <<Lt(metrics.brandability, Num(6)), "Limited branding potential">>,
        <<Lt(metrics.keywordPlacement, Num(5)) /\ metrics.hasKeywords,
          "Suboptimal keyword placement">>,
        <<Lt(metrics.domainExtension, Num(7)), "Less effective TLD">>,
        <<includes(name, <<"-">>), "Contains hyphens">>,
        <<\E i \in 1..Len(name) : name[i] \in Digits, "Contains numbers">>
      >>)
  IN  [weaknesses |-> weaknesses,
       weaknessDetails |->
         [w \in Range(weaknesses) |->
            IF w = "Less effective TLD" THEN <<w, extension>> ELSE <<w, <<>>>>]]

(***************************************************************************)
(* Inputs                                                                   *)
(***************************************************************************)
\* the pieces generated raw inputs are concatenated from
Tokens ==
  { <<"h", "t", "t", "p", ":", "/", "/">>,
    <<"h", "t", "t", "p", "s", ":", "/", "/">>,
    <<"w", "w", "w", ".">>,
    <<"/">>,
    <<".">>,
    <<"-">>,
    <<" ">>,
    <<"A">>,
    <<"b">>,
    <<"1">> }

RECURSIVE TokenStrings(_)
TokenStrings(n) ==
  IF n = 0 THEN {<<>>}
  ELSE {t \o s : t \in Tokens, s \in TokenStrings(n - 1)}

GeneratedInputs == UNION {TokenStrings(n) : n \in 0..MaxTokens}

\* the scenarios of the specification and other decorated inputs
SampleInputs ==
  { <<"e", "x", "a", "m", "p", "l", "e", ".", "c", "o", "m">>,
    <<"h", "t", "t", "p", "s", ":", "/", "/", "w", "w", "w", ".", "m", "y", "s", "e", "o", "-", "a", "p", "p", ".", "i", "o", "/", "p", "a", "g", "e">>,
    <<"a", "b">>,
    <<"s", "h", "o", "r", "t", ".", "c", "o", "m">>,
    <<"a", "v", "e", "r", "y", "l", "o", "n", "g", "d", "o", "m", "a", "i", "n", "n", "a", "m", "e", "e", "x", "a", "m", "p", "l", "e", ".", "n", "e", "t">>,
    <<"s", "i", "t", "e", "1", "2", "3", ".", "n", "e", "t">>,
    <<" ", " ", "E", "x", "a", "m", "p", "l", "e", ".", "C", "O", "M", " ", " ">>,
    <<"H", "T", "T", "P", ":", "/", "/", "W", "W", "W", ".", "S", "e", "a", "r", "c", "h", ".", "C", "o", "m", "/", "a", ".", "b">>,
    <<"w", "w", "w", ".", "w", "w", "w", ".", "a", ".", "c", "o", "m">>,
    <<"a", ".", "c", "o", ".", "u", "k">>,
    <<"h", "t", "t", "p", ":", "/", "/", " ", "a", ".", "c", "o", "m">>,
    <<"a", ".", "c", "o", "m", " ", "/", "x">> }

SampleNames ==
  { <<"e", "x", "a", "m", "p", "l", "e">>,
    <<"s", "e", "a", "r", "c", "h">>,
    <<"s", "h", "o", "p">>,
    <<"a", "i">>,
    <<"a">>,
    <<>>,
    <<"m", "y", "s", "e", "o", "-", "a", "p", "p">>,
    <<"s", "i", "t", "e", "1", "2", "3">>,
    <<"g", "e", "t", "-", "a", "p", "p">>,
    <<"m", "y", "_", "a", "p", "p">>,
    <<"x", ".", "a", "i">>,
    <<"b", "e", "s", "t", "-", "s", "e", "o", "-", "s", "h", "o", "p">>,
    <<"a", "b", "c", "d", "e">>,
    <<"a", "b", "c", "d", "e", "f", "g", "h", "i", "j", "k", "l", "m", "n", "o">>,
    <<"a", "v", "e", "r", "y", "l", "o", "n", "g", "d", "o", "m", "a", "i", "n", "n", "a", "m", "e", "e", "x", "a", "m", "p", "l", "e">>,
    <<"a", "1", "b", "2", "c", "3", "d", "4", "e", "5", "f", "6">>,
    <<"w", "e", "b", "_", "2">>,
    <<"a", "a", "a", "a", "-", "-", "-", "-", "1", "2", "3", "4", "5">>,
    [k \in 1..32 |-> "z"],
    [k \in 1..33 |-> "z"] }

SampleExtensions ==
  { <<"c", "o", "m">>,
    <<"n", "e", "t">>,
    <<"i", "o">>,
    <<"a", "i">>,
    <<"a", "p", "p">>,
    <<"x", "y", "z">>,
    <<>>,
    <<"c", "o", "n", "s", "t", "r", "u", "c", "t", "o", "r">> }

NamedInputs == {n \o <<".">> \o e : n \in SampleNames, e \in SampleExtensions}

\* k hyphens
RECURSIVE Hyphens(_)
Hyphens(k) == IF k = 0 THEN <<>> ELSE <<"-">> \o Hyphens(k - 1)

\* "-...-ai.x": the keyword is segment k of the name
PaddedInputs == {Hyphens(k) \o <<"a", "i", ".", "x">> : k \in 0..MaxPad}

RawInputs == GeneratedInputs \cup SampleInputs \cup NamedInputs \cup PaddedInputs

\* the domains compareDomains is called with
CompareInputs ==
  { <<"s", "h", "o", "r", "t", ".", "c", "o", "m">>,
    <<"s", "h", "o", "r", "e", ".", "c", "o", "m">>,
    <<"s", "e", "a", "r", "c", "h", ".", "c", "o", "m">>,
    <<"a", "v", "e", "r", "y", "l", "o", "n", "g", "d", "o", "m", "a", "i", "n", "n", "a", "m", "e", "e", "x", "a", "m", "p", "l", "e", ".", "n", "e", "t">>,
    <<"a", "b">>,
    <<"x", ".", "c", "o", "n", "s", "t", "r", "u", "c", "t", "o", "r">>,
    <<"-", "-", "-", "-", "-", "-", "-", "-", "-", "-", "-", "-", "-", "-", "-", "-", "-", "-", "-", "-", "-", "-", "-", "-", "-", "a", "i", ".", "x">>,
    <<"-", "-", "-", "-", "-", "-", "-", "-", "-", "-", "-", "-", "-", "-", "-", "-", "-", "-", "-", "-", "-", "-", "-", "-", "-", "-", "-", "a", "i", ".", "x">> }

RECURSIVE ListsOf(_, _)
ListsOf(S, n) ==
  IF n = 0 THEN {<<>>}
  ELSE {<<x>> \o l : x \in S, l \in ListsOf(S, n - 1)}

CompareLists == UNION {ListsOf(CompareInputs, n) : n \in 0..MaxDomains}

\* what the pricing collaborator may resolve with
Pricings ==
  { [available |-> FALSE],
    [available |-> TRUE, price |-> 12, currency |-> "USD", registrar |-> "GoDaddy"] }

(***************************************************************************)
(* analyzeDomain and compareDomains                                         *)
(***************************************************************************)
\* analyzeDomain up to its await: the task it leaves behind.  requested is
\* the list of getDomainPricing calls it has made.
analyzeDomainStart(domain) ==
  CHOOSE task \in UNION {
    IF cleanDomain = <<>>
      THEN {[raw |-> domain, state |-> "rejected", error |-> "Invalid domain name",
             requested |-> <<>>]}
      ELSE UNION {
        { [raw |-> domain, state |-> "awaiting", error |-> "",
           requested |-> <<cleanDomain>>,
           name |-> pair[1], extension |-> pair[2],
           locals |->
             [domain |-> cleanDomain,
              metrics |-> metrics,
              recommendations |-> generateRecommendations(metrics, pair[1], pair[2]),
              strengths |-> identifyStrengths(metrics, pair[1], pair[2]).strengths,
              weaknesses |-> identifyWeaknesses(metrics, pair[1], pair[2]).weaknesses,
              strengthDetails |->
                identifyStrengths(metrics, pair[1], pair[2]).strengthDetails,
              weaknessDetails |->
                identifyWeaknesses(metrics, pair[1], pair[2]).weaknessDetails,
              recommendationDetails |->
                generateEnhancedRecommendationDetails(
                  generateRecommendations(metrics, pair[1], pair[2]),
                  metrics, pair[1], pair[2])]]
          : metrics \in {calculateSEOMetrics(pair[1], pair[2])} }
        : pair \in {splitDomain(cleanDomain)} }
    : cleanDomain \in {cleanDomainName(domain)} } : TRUE

\* analyzeDomain returning only the fields of the first AnalysisResult type
\* when the lookup fails
analyzeDomainReturn_legacyFields(locals, outcome) ==
  IF outcome.ok
    THEN [f \in DOMAIN locals \cup {"pricing"} |->
            IF f = "pricing" THEN outcome.pricing ELSE locals[f]]
    ELSE [f \in {"domain", "metrics", "recommendations", "strengths", "weaknesses"} |->
            locals[f]]

\* analyzeDomain letting the pricing outcome into the insights
analyzeDomainReturn_pricingInStrengths(locals, outcome) ==
  IF outcome.ok
    THEN [domain |-> locals.domain,
          metrics |-> locals.metrics,
          recommendations |-> locals.recommendations,
          strengths |-> IF outcome.pricing.available
                          THEN Append(locals.strengths, "Available for registration")
                          ELSE locals.strengths,
          weaknesses |-> locals.weaknesses,
          strengthDetails |-> locals.strengthDetails,
          weaknessDetails |-> locals.weaknessDetails,
          recommendationDetails |-> locals.recommendationDetails,
          pricing |-> outcome.pricing]
    ELSE [domain |-> locals.domain,
          metrics |-> locals.metrics,
          recommendations |-> locals.recommendations,
          strengths |-> locals.strengths,
          weaknesses |-> locals.weaknesses,
          strengthDetails |-> locals.strengthDetails,
          weaknessDetails |-> locals.weaknessDetails,
          recommendationDetails |-> locals.recommendationDetails]

\* the value analyzeDomain returns once the pricing lookup has settled:
\* outcome.ok says whether getDomainPricing resolved (with outcome.pricing)
analyzeDomainReturn(locals, outcome) ==
  IF outcome.ok
    THEN [domain |-> locals.domain,
          metrics |-> locals.metrics,
          recommendations |-> locals.recommendations,
          strengths |-> locals.strengths,
          weaknesses |-> locals.weaknesses,
          strengthDetails |-> locals.strengthDetails,
          weaknessDetails |-> locals.weaknessDetails,
          recommendationDetails |-> locals.recommendationDetails,
          pricing |-> outcome.pricing]
    ELSE [domain |-> locals.domain,
          metrics |-> locals.metrics,
          recommendations |-> locals.recommendations,
          strengths |-> locals.strengths,
          weaknesses |-> locals.weaknesses,
          strengthDetails |-> locals.strengthDetails,
          weaknessDetails |-> locals.weaknessDetails,
          recommendationDetails |-> locals.recommendationDetails]

\* the forEach loop of compareDomains from result i on
RECURSIVE selectBest(_, _, _, _)
selectBest(results, i, bestChoice, highestScore) ==
  IF i > Len(results) THEN bestChoice
  ELSE IF Gt(results[i].metrics.overallScore, highestScore)
    THEN selectBest(results, i + 1, results[i].domain, results[i].metrics.overallScore)
    ELSE selectBest(results, i + 1, bestChoice, highestScore)

\* the results in the order in which the analyses returned
joinedResults_completionOrder(ts) ==
  [k \in 1..Len(ts) |-> ts[CHOOSE i \in 1..Len(ts) : ts[i].settled = k].value]

\* what Promise.all resolves with: the results in the order of the promises
joinedResults(ts) ==
  [i \in 1..Len(ts) |-> ts[i].value]

\* the DomainComparison compareDomains returns for the joined results
compareDomainsReturn(results) ==
  [domains |-> results, bestChoice |-> selectBest(results, 1, <<>>, Num(0))]

RECURSIVE concatRequested(_)
concatRequested(ts) ==
  IF ts = <<>> THEN <<>> ELSE ts[1].requested \o concatRequested(Tail(ts))

Idle == [op |-> "none", status |-> "idle", args |-> <<>>, error |-> ""]

\* a value that is null (user, localStorage.getItem("user"), comparison)
null == [null |-> TRUE]

\* the AuthProvider of a page opened for the first time, after its mount
\* effect: no user, nothing stored, an empty MOCK_USERS.  now is the clock,
\* created the number of accounts created so far (the ids are distinct
\* Date.now() values), pending the operation waiting for its delay,
\* toast the title of the last toast of the provider.
SignedOut ==
  [user |-> null, isLoading |-> FALSE, localStorage |-> null, MOCK_USERS |-> <<>>,
   now |-> 0, created |-> 0, pending |-> <<>>, toast |-> ""]

\* the state of a DomainAnalyzer just mounted; toasts are the titles shown
\* since the last analysis started, timer the pending 1 s timer
Mounted ==
  [results |-> <<>>, comparison |-> null, isAnalyzing |-> FALSE,
   showAnalytics |-> FALSE, toasts |-> {}, timer |-> FALSE]

Init ==
  /\ call = Idle
  /\ tasks = <<>>
  /\ pricingCalls = <<>>
  /\ probe = [fn |-> "none"]
  /\ auth = SignedOut
  /\ analyzer = Mounted

\* a caller invokes analyzeDomain(domain)
AnalyzeDomain(domain) ==
  /\ call.status = "idle"
  /\ LET task == analyzeDomainStart(domain)
     IN  /\ tasks' = <<task>>
         /\ pricingCalls' = task.requested
         /\ call' = [op |-> "analyzeDomain",
                     status |-> IF task.state = "rejected" THEN "rejected" ELSE "pending",
                     args |-> <<domain>>,
                     error |-> task.error]
  /\ UNCHANGED <<probe, auth, analyzer>>

\* a caller invokes compareDomains(domains): domains.map runs every
\* analyzeDomain up to its await
CompareDomains(domains) ==
  /\ call.status = "idle"
  /\ tasks' = [i \in 1..Len(domains) |-> analyzeDomainStart(domains[i])]
  /\ pricingCalls' = concatRequested(tasks')
  /\ call' = [op |-> "compareDomains", status |-> "pending",
              args |-> domains, error |-> ""]
  /\ UNCHANGED <<probe, auth, analyzer>>

\* the pricing lookup of task i settles and analyzeDomain returns; settled
\* is the position of the task in the order of completion
PricingSettles(i, outcome) ==
  /\ i \in 1..Len(tasks)
  /\ tasks[i].state = "awaiting"
  /\ tasks' = [tasks EXCEPT ![i] =
       [raw |-> @.raw, state |-> "fulfilled", error |-> "", requested |-> @.requested,
        name |-> @.name, extension |-> @.extension, locals |-> @.locals,
        priced |-> outcome.ok,
        settled |-> Cardinality({j \in 1..Len(tasks) : tasks[j].state = "fulfilled"}) + 1,
        value |-> analyzeDomainReturn(@.locals, outcome)]]
  /\ call' = IF call.op = "analyzeDomain"
               THEN [call EXCEPT !.status = "fulfilled"] ELSE call
  /\ UNCHANGED <<pricingCalls, probe, auth, analyzer>>

\* getDomainPricing resolves with pricing
PricingResolves(i, pricing) ==
  PricingSettles(i, [ok |-> TRUE, pricing |-> pricing])

\* getDomainPricing rejects
PricingRejects(i) ==
  PricingSettles(i, [ok |-> FALSE])

\* compareDomains waiting for every analysis and returning the results of
\* those that returned
CompareSettles_partialResults ==
  /\ call.op = "compareDomains"
  /\ call.status = "pending"
  /\ \A i \in 1..Len(tasks) : tasks[i].state \in {"fulfilled", "rejected"}
  /\ call' = [op |-> call.op, status |-> "fulfilled", args |-> call.args,
              error |-> "",
              value |-> compareDomainsReturn(
                          joinedResults(SelectSeq(tasks, LAMBDA t : t.state = "fulfilled")))]
  /\ UNCHANGED <<tasks, pricingCalls, probe, auth, analyzer>>

\* Promise.all settles: rejected as soon as one analysis is rejected,
\* fulfilled once all are fulfilled; then compareDomains picks bestChoice
CompareSettles ==
  /\ call.op = "compareDomains"
  /\ call.status = "pending"
  /\ \/ /\ \E i \in 1..Len(tasks) : tasks[i].state = "rejected"
        /\ call' = [call EXCEPT !.status = "rejected",
                                !.error = "Invalid domain name"]
     \/ /\ \A i \in 1..Len(tasks) : tasks[i].state = "fulfilled"
        /\ call' = [op |-> call.op, status |-> "fulfilled", args |-> call.args,
                    error |-> "",
                    value |-> compareDomainsReturn(joinedResults(tasks))]
  /\ UNCHANGED <<tasks, pricingCalls, probe, auth, analyzer>>

Next ==
  \/ \E domain \in RawInputs : AnalyzeDomain(domain)
  \/ \E domains \in CompareLists : CompareDomains(domains)
  \/ \E i \in 1..MaxDomains, pricing \in Pricings : PricingResolves(i, pricing)
  \/ \E i \in 1..MaxDomains : PricingRejects(i)
  \/ CompareSettles

Spec == Init /\ [][Next]_vars

\* one analyzeDomain call on its own
NextAnalyze ==
  \/ \E domain \in RawInputs : AnalyzeDomain(domain)
  \/ \E pricing \in Pricings : PricingResolves(1, pricing)
  \/ PricingRejects(1)

SpecAnalyze == Init /\ [][NextAnalyze]_vars

(***************************************************************************)
(* Several analyzeDomain calls, made by independent callers at any time:    *)
(* a call may start before, while or after the lookups of earlier calls     *)
(* are pending.  tasks lists the calls in the order they were made.         *)
(***************************************************************************)
\* largest number of analyzeDomain calls
MaxCalls == 3

CallInputs ==
  { <<"s", "h", "o", "r", "t", ".", "c", "o", "m">>,
    <<"s", "i", "t", "e", "1", "2", "3", ".", "n", "e", "t">>,
    <<"a", "b">> }

\* one more caller invokes analyzeDomain(domain)
AnalyzeDomainCall(domain) ==
  /\ Len(tasks) < MaxCalls
  /\ LET task == analyzeDomainStart(domain)
     IN  /\ tasks' = Append(tasks, task)
         /\ pricingCalls' = pricingCalls \o task.requested
  /\ UNCHANGED <<call, probe, auth, analyzer>>

NextCalls ==
  \/ \E domain \in CallInputs : AnalyzeDomainCall(domain)
  \/ \E i \in 1..MaxCalls, pricing \in Pricings : PricingResolves(i, pricing)
  \/ \E i \in 1..MaxCalls : PricingRejects(i)

SpecCalls == Init /\ [][NextCalls]_vars

(***************************************************************************)
(* The pure helpers applied directly                                        *)
(***************************************************************************)
\* strings without a dot, for splitDomain(name + '.' + extension)
DotFree ==
  { <<>>, <<"a">>, <<"a", "b">>, <<"c", "o", "m">>, <<"A", "-", "1">>,
    <<"/">>, <<" ", "x">>, <<"m", "y", "s", "e", "o", "-", "a", "p", "p">> }

SplitDomainOf(domain) ==
  /\ probe.fn = "none"
  /\ probe' = [fn |-> "splitDomain", arg |-> domain, out |-> splitDomain(domain)]
  /\ UNCHANGED <<call, tasks, pricingCalls, auth, analyzer>>

LengthScoreOf(length) ==
  /\ probe.fn = "none"
  /\ probe' = [fn |-> "calculateLengthScore", arg |-> length,
               out |-> calculateLengthScore(length)]
  /\ UNCHANGED <<call, tasks, pricingCalls, auth, analyzer>>

\* names for the vowel/consonant ratio: the non-empty sample names and
\* names whose ratio is 0.4, 0.6, 0, 10 and 2/3
RatioNames ==
  (SampleNames \ {<<>>}) \cup
  { <<"s", "t", "r", "a", "n", "g", "e">>,
    <<"b", "u", "s", "i", "n", "e", "s", "s">>,
    <<"b", "c", "d", "f", "g">>,
    <<"a", "e", "i", "o", "u", "a", "e", "i", "o", "u">>,
    <<"s", "h", "o", "r", "e">>,
    <<"a", "-", "1">> }

\* the vcRatioScore computed inside calculateMemorabilityScore
RatioScoreOf(name) ==
  /\ probe.fn = "none"
  /\ probe' = [fn |-> "vcRatioScore", arg |-> name, out |-> vcRatioScoreOf(name)]
  /\ UNCHANGED <<call, tasks, pricingCalls, auth, analyzer>>

NextFn ==
  \/ \E domain \in GeneratedInputs \cup {n \o <<".">> \o e : n \in DotFree, e \in DotFree} :
        SplitDomainOf(domain)
  \/ \E length \in 0..MaxLength : LengthScoreOf(length)
  \/ \E name \in RatioNames : RatioScoreOf(name)

SpecFn == Init /\ [][NextFn]_vars

(***************************************************************************)
(* Accounts: the AuthProvider of src/src/context/AuthContext.tsx.  A user   *)
(* is a record with the fields id, email, tier, dailyUsage, lastUsageDate   *)
(* and trialEndDate (name, shown only, is left out).  Instants are clock    *)
(* ticks, dates are days; MOCK_USERS is the list of its values in           *)
(* insertion order.  An operation of the provider starts, waits for its     *)
(* delay and completes in a second step.                                    *)
(***************************************************************************)
\* days of the trial of a new account
TrialDays == 14

\* analyses a free user may make
FreeLimit == 5

\* clock ticks of a day
TicksPerDay == 2

\* the last day of the clock
MaxDay == 15

\* largest dailyUsage
MaxUsage == 6

\* largest number of accounts created
MaxAccounts == 1

\* what is typed into the sign-in and sign-up dialogs
Emails == {"ann@example.com"}

\* `user${Math.floor(Math.random() * 1000)}@gmail.com`
GoogleEmails == {"user7@gmail.com"}

\* new Date().toISOString().split('T')[0]
getCurrentDate(now) == now \div TicksPerDay

\* user.trialEndDate && new Date(user.trialEndDate) > new Date()
isInTrial(user, now) == user.trialEndDate > now

\* the account signUp and signInWithGoogle create
newAccount(a, prefix, email) ==
  [id |-> <<prefix, a.created + 1>>, email |-> email, tier |-> "free",
   dailyUsage |-> 0, lastUsageDate |-> getCurrentDate(a.now),
   trialEndDate |-> a.now + TrialDays * TicksPerDay]

updateLocalStorage(a, updatedUser) ==
  [a EXCEPT !.localStorage = updatedUser,
            !.MOCK_USERS = [i \in 1..Len(a.MOCK_USERS) |->
                              IF a.MOCK_USERS[i].id = updatedUser.id
                                THEN updatedUser ELSE a.MOCK_USERS[i]]]

\* setUser(updatedUser); updateLocalStorage(updatedUser)
countUsage(a) ==
  CHOOSE r \in
    { updateLocalStorage([a EXCEPT !.user = updatedUser], updatedUser)
      : updatedUser \in {[a.user EXCEPT !.dailyUsage = @ + 1,
                                        !.lastUsageDate = getCurrentDate(a.now)]} } : TRUE

\* updateUsage(): the provider after the call, and what the call returns
updateUsage(a) ==
  IF a.user = null THEN [auth |-> a, canProceed |-> FALSE]
  ELSE IF a.user.tier = "premium" \/ isInTrial(a.user, a.now)
    THEN [auth |-> countUsage(a), canProceed |-> TRUE]
  ELSE IF a.user.dailyUsage >= FreeLimit
    THEN [auth |-> [a EXCEPT !.toast = "Daily limit reached"], canProceed |-> FALSE]
  ELSE [auth |-> countUsage(a), canProceed |-> TRUE]

\* an operation has completed: finally { setIsLoading(false) }
completed(a, toast) ==
  [a EXCEPT !.toast = toast, !.isLoading = FALSE, !.pending = <<>>]

\* the sign-up dialog is submitted
SignUp(email) ==
  /\ auth.user = null /\ ~auth.isLoading
  /\ \/ auth.created < MaxAccounts
     \/ \E i \in 1..Len(auth.MOCK_USERS) : auth.MOCK_USERS[i].email = email
  /\ auth' = [auth EXCEPT !.isLoading = TRUE, !.pending = <<"signUp", email>>]
  /\ UNCHANGED <<call, tasks, pricingCalls, probe, analyzer>>

SignUpCompletes ==
  /\ auth.pending # <<>> /\ auth.pending[1] = "signUp"
  /\ LET email   == auth.pending[2]
         newUser == newAccount(auth, "user", email)
     IN  auth' =
           IF \E i \in 1..Len(auth.MOCK_USERS) : auth.MOCK_USERS[i].email = email
             THEN completed(auth, "Sign up failed")
             ELSE completed(
                    updateLocalStorage(
                      [auth EXCEPT !.MOCK_USERS = Append(@, newUser),
                                   !.user = newUser,
                                   !.created = @ + 1], newUser),
                    "Account created")
  /\ UNCHANGED <<call, tasks, pricingCalls, probe, analyzer>>

\* the sign-in dialog is submitted
SignIn(email) ==
  /\ auth.user = null /\ ~auth.isLoading
  /\ auth' = [auth EXCEPT !.isLoading = TRUE, !.pending = <<"signIn", email>>]
  /\ UNCHANGED <<call, tasks, pricingCalls, probe, analyzer>>

SignInCompletes ==
  /\ auth.pending # <<>> /\ auth.pending[1] = "signIn"
  /\ LET email == auth.pending[2]
         found == {i \in 1..Len(auth.MOCK_USERS) : auth.MOCK_USERS[i].email = email}
         first == CHOOSE i \in found : \A j \in found : i <= j
         today == getCurrentDate(auth.now)
         foundUser ==
           IF auth.MOCK_USERS[first].lastUsageDate # today
             THEN [auth.MOCK_USERS[first] EXCEPT !.dailyUsage = 0, !.lastUsageDate = today]
             ELSE auth.MOCK_USERS[first]
     IN  auth' =
           IF found = {}
             THEN completed(auth, "Sign in failed")
             ELSE completed(updateLocalStorage([auth EXCEPT !.user = foundUser], foundUser),
                            "Welcome back!")
  /\ UNCHANGED <<call, tasks, pricingCalls, probe, analyzer>>

\* the Google button of a dialog is pressed
SignInWithGoogle(email) ==
  /\ auth.user = null /\ ~auth.isLoading
  /\ auth.created < MaxAccounts
  /\ auth' = [auth EXCEPT !.isLoading = TRUE, !.pending = <<"signInWithGoogle", email>>]
  /\ UNCHANGED <<call, tasks, pricingCalls, probe, analyzer>>

SignInWithGoogleCompletes ==
  /\ auth.pending # <<>> /\ auth.pending[1] = "signInWithGoogle"
  /\ LET googleUser == newAccount(auth, "google", auth.pending[2])
     IN  auth' =
           completed(
             updateLocalStorage(
               [auth EXCEPT !.MOCK_USERS = Append(@, googleUser),
                            !.user = googleUser,
                            !.created = @ + 1], googleUser),
             "Signed in with Google")
  /\ UNCHANGED <<call, tasks, pricingCalls, probe, analyzer>>

\* Sign out is chosen in the user menu
SignOut ==
  /\ auth.user # null /\ ~auth.isLoading
  /\ auth' = [auth EXCEPT !.isLoading = TRUE, !.pending = <<"signOut">>]
  /\ UNCHANGED <<call, tasks, pricingCalls, probe, analyzer>>

SignOutCompletes ==
  /\ auth.pending # <<>> /\ auth.pending[1] = "signOut"
  /\ auth' = completed([auth EXCEPT !.user = null, !.localStorage = null], "Signed out")
  /\ UNCHANGED <<call, tasks, pricingCalls, probe, analyzer>>

\* the page is loaded again: the module and the components start afresh
\* and the mount effect of the provider reads localStorage
Reload ==
  /\ LET storedUser == auth.localStorage
         today      == getCurrentDate(auth.now)
         parsedUser ==
           IF storedUser # null /\ storedUser.lastUsageDate # today
             THEN [storedUser EXCEPT !.dailyUsage = 0, !.lastUsageDate = today]
             ELSE storedUser
     IN  auth' = [user |-> parsedUser, isLoading |-> FALSE, localStorage |-> parsedUser,
                  MOCK_USERS |-> <<>>, now |-> auth.now, created |-> auth.created,
                  pending |-> <<>>, toast |-> ""]
  /\ call' = Idle
  /\ tasks' = <<>>
  /\ analyzer' = Mounted
  /\ UNCHANGED <<pricingCalls, probe>>

\* the clock advances
TimePasses ==
  /\ auth.now < MaxDay * TicksPerDay
  /\ auth' = [auth EXCEPT !.now = @ + 1]
  /\ UNCHANGED <<call, tasks, pricingCalls, probe, analyzer>>

\* a component calls updateUsage()
UpdateUsage ==
  /\ auth.user # null => auth.user.dailyUsage < MaxUsage
  /\ auth' = updateUsage(auth).auth
  /\ UNCHANGED <<call, tasks, pricingCalls, probe, analyzer>>

NextAuth ==
  \/ \E email \in Emails : SignUp(email)
  \/ SignUpCompletes
  \/ \E email \in Emails : SignIn(email)
  \/ SignInCompletes
  \/ \E email \in GoogleEmails : SignInWithGoogle(email)
  \/ SignInWithGoogleCompletes
  \/ SignOut
  \/ SignOutCompletes
  \/ Reload
  \/ TimePasses
  \/ UpdateUsage

SpecAuth == Init /\ [][NextAuth]_vars

(***************************************************************************)
(* The page: the DomainAnalyzer component of src/unnamed/part_006.  Its     *)
(* handleAnalyze runs up to the await of analyzeDomain or compareDomains    *)
(* and resumes when that call has settled.                                  *)
(***************************************************************************)
\* what the domain inputs of the page may hold
PageInputs ==
  { <<"s", "h", "o", "r", "t", ".", "c", "o", "m">>,
    <<"s", "e", "a", "r", "c", "h", ".", "c", "o", "m">>,
    <<"a", "b">>,
    <<" ">> }

\* analyzeDomain up to its await, for each page input
startedTasks == [d \in PageInputs |-> analyzeDomainStart(d)]

PageLists == UNION {ListsOf(PageInputs, n) : n \in 1..MaxDomains}

\* domains.filter(d => d.trim() !== '')
RECURSIVE validDomainsOf(_)
validDomainsOf(domains) ==
  IF domains = <<>> THEN <<>>
  ELSE (IF trim(domains[1]) # <<>> THEN <<domains[1]>> ELSE <<>>)
         \o validDomainsOf(Tail(domains))

\* the Analyze button is clicked with these domain inputs
HandleAnalyze(domains) ==
  /\ ~analyzer.isAnalyzing
  /\ auth.user # null => auth.user.dailyUsage < MaxUsage
  /\ LET validDomains == validDomainsOf(domains)
         usage == IF auth.user # null THEN updateUsage(auth)
                  ELSE [auth |-> auth, canProceed |-> TRUE]
     IN  IF validDomains = <<>>
           THEN /\ analyzer' = [analyzer EXCEPT !.toasts = @ \cup {"No domains to analyze"}]
                /\ UNCHANGED <<auth, call, tasks, pricingCalls>>
         ELSE IF ~usage.canProceed
           THEN /\ auth' = usage.auth
                /\ UNCHANGED <<analyzer, call, tasks, pricingCalls>>
         ELSE /\ auth' = usage.auth
              /\ analyzer' = [results |-> <<>>, comparison |-> null, isAnalyzing |-> TRUE,
                              showAnalytics |-> FALSE, toasts |-> {}, timer |-> TRUE]
              /\ tasks' = [i \in 1..Len(validDomains) |-> startedTasks[validDomains[i]]]
              /\ pricingCalls' = concatRequested(tasks')
              /\ call' =
                   IF Len(validDomains) = 1
                     THEN [op |-> "analyzeDomain",
                           status |-> IF tasks'[1].state = "rejected"
                                        THEN "rejected" ELSE "pending",
                           args |-> validDomains, error |-> tasks'[1].error]
                     ELSE [op |-> "compareDomains", status |-> "pending",
                           args |-> validDomains, error |-> ""]
  /\ UNCHANGED probe

\* the awaited call has settled: the rest of the try block, or the catch
\* block, and the finally block
HandleAnalyzeResumes ==
  /\ analyzer.isAnalyzing
  /\ call.status \in {"fulfilled", "rejected"}
  /\ analyzer' =
       IF call.status = "rejected"
         THEN [analyzer EXCEPT !.toasts = @ \cup {"Analysis failed"},
                               !.isAnalyzing = FALSE]
       ELSE IF call.op = "analyzeDomain"
         THEN [analyzer EXCEPT !.results = <<tasks[1].value>>,
                               !.toasts = @ \cup {"Analysis complete"},
                               !.showAnalytics = TRUE,
                               !.isAnalyzing = FALSE]
       ELSE [analyzer EXCEPT !.results = call.value.domains,
                             !.comparison = call.value,
                             !.toasts = @ \cup {"Analysis complete"},
                             !.showAnalytics = TRUE,
                             !.isAnalyzing = FALSE]
  /\ UNCHANGED <<call, tasks, pricingCalls, probe, auth>>

\* the 1 s timer of handleAnalyze fires
TimerFires ==
  /\ analyzer.timer
  /\ analyzer' = [analyzer EXCEPT !.toasts = @ \cup {"Analyzing domains..."},
                                  !.timer = FALSE]
  /\ UNCHANGED <<call, tasks, pricingCalls, probe, auth>>

NextPage ==
  \/ \E domains \in PageLists : HandleAnalyze(domains)
  \/ HandleAnalyzeResumes
  \/ TimerFires
  \/ \E i \in 1..MaxDomains, pricing \in Pricings : PricingResolves(i, pricing)
  \/ \E i \in 1..MaxDomains : PricingRejects(i)
  \/ CompareSettles

\* the page of a visitor who has not signed in
SpecPage == Init /\ [][NextPage]_vars

(***************************************************************************)
(* Vocabulary of the properties                                             *)
(***************************************************************************)
\* the analyses that passed validation
Analyzed == {i \in 1..Len(tasks) : tasks[i].state # "rejected"}

\* the analyses that have returned a result
Returned == {i \in 1..Len(tasks) : tasks[i].state = "fulfilled"}

HasDot(s) == \E i \in 1..Len(s) : s[i] = "."

\* s without a leading p
RemoveLeading(s, p) ==
  IF Len(s) >= Len(p) /\ (\A i \in 1..Len(p) : s[i] = p[i])
    THEN [i \in 1..(Len(s) - Len(p)) |-> s[i + Len(p)]]
    ELSE s

\* the longest prefix of s that does not contain the character c
BeforeFirst(s, c) ==
  LET n == CHOOSE k \in 0..Len(s) :
             /\ \A i \in 1..k : s[i] # c
             /\ k = Len(s) \/ s[k + 1] = c
  IN  [i \in 1..n |-> s[i]]

\* the cleaned domain as the specification describes it: lower-cased and
\* trimmed, a leading scheme removed, then one leading www., then the path
ClaimedClean(raw) ==
  LET lowered  == trim(toLowerCase(raw))
      noHttp   == RemoveLeading(lowered, <<"h", "t", "t", "p", ":", "/", "/">>)
      noScheme == IF noHttp # lowered THEN noHttp
                  ELSE RemoveLeading(lowered, <<"h", "t", "t", "p", "s", ":", "/", "/">>)
      noWww    == RemoveLeading(noScheme, <<"w", "w", "w", ".">>)
  IN  BeforeFirst(noWww, "/")

\* name is the part of d before its last dot and extension the part after it
SplitAtLastDot(d, name, extension) ==
  /\ d = name \o <<".">> \o extension
  /\ ~HasDot(extension)

Inside(x, lo, hi) == Le(Num(lo), x) /\ Le(x, Num(hi))

(***************************************************************************)
(* C1: bestChoice of compareDomains is the cleaned domain of the result     *)
(* with the maximum overallScore, the first such result in input order.     *)
(* Stated for a non-empty list whose scores are all numbers.  Fails:        *)
(* highestScore starts at 0, so a list whose scores are all <= 0 gets       *)
(* bestChoice ''.                                                           *)
(***************************************************************************)
C1_BestChoiceIsFirstMaximum ==
  (/\ call.op = "compareDomains"
   /\ call.status = "fulfilled"
   /\ Len(call.value.domains) > 0
   /\ \A j \in 1..Len(call.value.domains) :
         ~isNaN(call.value.domains[j].metrics.overallScore))
  => LET rs == call.value.domains
     IN  \E i \in 1..Len(rs) :
           /\ call.value.bestChoice = rs[i].domain
           /\ \A j \in 1..Len(rs) :
                Le(rs[j].metrics.overallScore, rs[i].metrics.overallScore)
           /\ \A j \in 1..(i - 1) :
                Lt(rs[j].metrics.overallScore, rs[i].metrics.overallScore)

(***************************************************************************)
(* C2: an input whose cleaned form has no '.' is rejected with 'Invalid     *)
(* domain name', yields no result, and no pricing lookup is made for it.    *)
(***************************************************************************)
C2_InvalidDomainRejectedBeforePricing ==
  /\ \A i \in 1..Len(tasks) :
       ~HasDot(ClaimedClean(tasks[i].raw)) =>
         /\ tasks[i].state = "rejected"
         /\ tasks[i].error = "Invalid domain name"
         /\ tasks[i].requested = <<>>
         /\ DOMAIN tasks[i] \cap {"locals", "value"} = {}
         /\ call.op = "analyzeDomain" =>
              /\ call.status = "rejected"
              /\ call.error = "Invalid domain name"
              /\ pricingCalls = <<>>
  /\ Len(pricingCalls)
       = Cardinality({i \in 1..Len(tasks) : HasDot(ClaimedClean(tasks[i].raw))})

\* analyzeDomain("www.b") has been rejected: the only dot belongs to www.
C2_Witness ==
  /\ call.op = "analyzeDomain"
  /\ call.status = "rejected"
  /\ tasks[1].raw = <<"w", "w", "w", ".", "b">>
  /\ pricingCalls = <<>>

(***************************************************************************)
(* C3: when the pricing lookup fails analyzeDomain still returns: the       *)
(* result has no pricing field, its other fields are those of a result of   *)
(* the same input whose lookup succeeded, and nothing is rejected because   *)
(* of the failure.                                                          *)
(***************************************************************************)
ResultFields ==
  {"domain", "metrics", "recommendations", "strengths", "weaknesses",
   "strengthDetails", "weaknessDetails", "recommendationDetails"}

C3_PricingFailureIsSwallowed ==
  /\ \A i \in Returned :
       ~tasks[i].priced =>
         /\ DOMAIN tasks[i].value = ResultFields
         /\ \A f \in ResultFields : tasks[i].value[f] = tasks[i].locals[f]
         /\ \A j \in Returned :
              (tasks[j].priced /\ tasks[j].raw = tasks[i].raw) =>
                /\ DOMAIN tasks[j].value = ResultFields \cup {"pricing"}
                /\ \A f \in ResultFields : tasks[j].value[f] = tasks[i].value[f]
         /\ call.op = "analyzeDomain" =>
              (call.status = "fulfilled" /\ call.error = "")
  /\ \A i \in 1..Len(tasks) :
       tasks[i].state = "rejected" => tasks[i].requested = <<>>
  /\ call.status = "rejected" =>
       \E i \in 1..Len(tasks) : tasks[i].state = "rejected"

\* two analyses of short.com have returned, one lookup failed, one succeeded
C3_Witness ==
  /\ Len(tasks) = 2
  /\ tasks[1].raw = <<"s", "h", "o", "r", "t", ".", "c", "o", "m">>
  /\ tasks[2].raw = tasks[1].raw
  /\ Returned = {1, 2}
  /\ ~tasks[1].priced
  /\ tasks[2].priced

(***************************************************************************)
(* C4: whenever normalization succeeds, name and extension are both         *)
(* non-empty.  Fails: "a." and ".com" pass the dot check.                   *)
(***************************************************************************)
C4_NameAndExtensionNonEmpty ==
  \A i \in Analyzed : tasks[i].name # <<>> /\ tasks[i].extension # <<>>

(***************************************************************************)
(* C5: result.domain is the input lower-cased, trimmed, without a leading   *)
(* scheme, without one leading www. and without the path; name and          *)
(* extension are the parts before and after its last dot.                   *)
(***************************************************************************)
C5_CleanedDomainAndSplit ==
  \A i \in Analyzed :
    /\ tasks[i].locals.domain = ClaimedClean(tasks[i].raw)
    /\ SplitAtLastDot(tasks[i].locals.domain, tasks[i].name, tasks[i].extension)
    /\ tasks[i].state = "fulfilled" =>
         tasks[i].value.domain = ClaimedClean(tasks[i].raw)
    /\ tasks[i].raw = <<"h", "t", "t", "p", "s", ":", "/", "/", "w", "w", "w", ".", "m", "y", "s", "e", "o", "-", "a", "p", "p", ".", "i", "o", "/", "p", "a", "g", "e">> =>
         /\ tasks[i].name = <<"m", "y", "s", "e", "o", "-", "a", "p", "p">>
         /\ tasks[i].extension = <<"i", "o">>

\* a.co.uk has been analyzed: only the final label is the extension
C5_Witness ==
  \E i \in Returned :
    /\ tasks[i].raw = <<"a", ".", "c", "o", ".", "u", "k">>
    /\ tasks[i].name = <<"a", ".", "c", "o">>
    /\ tasks[i].extension = <<"u", "k">>
    /\ tasks[i].value.domain = <<"a", ".", "c", "o", ".", "u", "k">>

(***************************************************************************)
(* C6: metrics.overallScore is an integer in [0, 10].  Fails: a keyword in  *)
(* a late segment makes keywordPlacement, and with it the sum, negative;    *)
(* an extension TLD_SCORES inherits makes it NaN.                           *)
(***************************************************************************)
C6_OverallScoreInRange ==
  \A i \in Analyzed :
    /\ isInteger(tasks[i].locals.metrics.overallScore)
    /\ Inside(tasks[i].locals.metrics.overallScore, 0, 10)

(***************************************************************************)
(* C7: normalization is idempotent: normalizing the cleaned string d again  *)
(* succeeds and yields d and the same (name, extension).  Fails: only one   *)
(* www. is stripped and the string is trimmed before stripping, so d can    *)
(* still start with www. or carry white space.                              *)
(***************************************************************************)
Renormalizes(i) ==
  /\ cleanDomainName(tasks[i].locals.domain) = tasks[i].locals.domain
  /\ splitDomain(cleanDomainName(tasks[i].locals.domain))
       = <<tasks[i].name, tasks[i].extension>>

\* d is made of non-empty labels of letters, digits and hyphens
WellFormedHost(d) ==
  /\ d # <<>>
  /\ \A k \in 1..Len(d) :
        \/ \E c \in 1..26 : LowerCase[c] = d[k]
        \/ d[k] \in Digits \cup {"-"}
        \/ /\ d[k] = "."
           /\ k > 1 /\ k < Len(d)
           /\ d[k + 1] # "."

\* checked on the well-formed host names among the cleaned strings, where
\* it already fails (www.www.a.com gives www.a.com, which gives a.com)
C7_NormalizationIdempotent ==
  \A i \in Analyzed :
    WellFormedHost(tasks[i].locals.domain) => Renormalizes(i)

\* d carries nothing a second normalization would strip
Canonical(d) ==
  /\ d # <<>> => (d[1] \notin WhiteSpace /\ d[Len(d)] \notin WhiteSpace)
  /\ ~(Len(d) >= 4 /\ [k \in 1..4 |-> d[k]] = <<"w", "w", "w", ".">>)

\* C7 as amended: normalization is idempotent when the cleaned string d has
\* no leading or trailing white space and does not start with www.
C7_IdempotentOnCanonical ==
  \A i \in Analyzed :
    Canonical(tasks[i].locals.domain) =>
      (HasDot(tasks[i].locals.domain) /\ Renormalizes(i))

\* HTTP://WWW.Search.Com/a.b has been cleaned to search.com, which
\* normalizes to itself
C7_Witness ==
  \E i \in Analyzed :
    /\ tasks[i].raw = <<"H", "T", "T", "P", ":", "/", "/", "W", "W", "W", ".", "S", "e", "a", "r", "c", "h", ".", "C", "o", "m", "/", "a", ".", "b">>
    /\ tasks[i].locals.domain = <<"s", "e", "a", "r", "c", "h", ".", "c", "o", "m">>
    /\ Canonical(tasks[i].locals.domain)
    /\ Renormalizes(i)

(***************************************************************************)
(* C8: splitDomain(name + '.' + extension) = (name, extension) whenever     *)
(* name and extension contain no dot.                                       *)
(***************************************************************************)
C8_SplitDomainRoundTrip ==
  probe.fn = "splitDomain" =>
    \A i \in 1..Len(probe.arg) :
      (\A j \in 1..Len(probe.arg) : (probe.arg[j] = ".") <=> (j = i)) =>
        probe.out = << [k \in 1..(i - 1) |-> probe.arg[k]],
                       [k \in 1..(Len(probe.arg) - i) |-> probe.arg[k + i]] >>

\* splitDomain("myseo-app.com") has returned ("myseo-app", "com")
C8_Witness ==
  /\ probe.fn = "splitDomain"
  /\ probe.arg = <<"m", "y", "s", "e", "o", "-", "a", "p", "p", ".", "c", "o", "m">>
  /\ probe.out = <<<<"m", "y", "s", "e", "o", "-", "a", "p", "p">>, <<"c", "o", "m">>>>

(***************************************************************************)
(* C9: the length score is 10 for a length in [6, 14] and max(5, length)    *)
(* for a length below 6.                                                    *)
(***************************************************************************)
C9_LengthScoreBands ==
  probe.fn = "calculateLengthScore" =>
    /\ (6 <= probe.arg /\ probe.arg <= 14) => probe.out = <<10, 1>>
    /\ probe.arg < 6 =>
         probe.out = <<IF probe.arg > 5 THEN probe.arg ELSE 5, 1>>

\* calculateLengthScore(14) has returned 10
C9_Witness ==
  /\ probe.fn = "calculateLengthScore"
  /\ probe.arg = 14
  /\ probe.out = <<10, 1>>

(***************************************************************************)
(* C10: 'Uses .com extension' is a strength if and only if the extension    *)
(* is 'com', whatever the metrics; it can appear with 'Premium TLD'.        *)
(***************************************************************************)
C10_UsesComIffExtensionCom ==
  \A i \in Analyzed :
    ("Uses .com extension" \in Range(tasks[i].locals.strengths))
      <=> (tasks[i].extension = <<"c", "o", "m">>)

\* a .com domain with 'Premium TLD' and 'Uses .com extension' both reported
C10_Witness ==
  \E i \in Returned :
    /\ tasks[i].extension = <<"c", "o", "m">>
    /\ {"Premium TLD", "Uses .com extension"} \subseteq Range(tasks[i].value.strengths)

(***************************************************************************)
(* C11: compareDomains(['short.com', 'averylongdomainnameexample.net'])     *)
(* returns bestChoice 'short.com'.  Fails: the 26-character name gets       *)
(* length score 14 - 12 * 0.5 = 8 against 5 for 'short' and matches the     *)
(* keyword 'ai' inside 'domain', so it scores 8 against 7.                  *)
(***************************************************************************)
C11_ShortBeatsLong ==
  (/\ call.op = "compareDomains"
   /\ call.status = "fulfilled"
   /\ call.args =
        << <<"s", "h", "o", "r", "t", ".", "c", "o", "m">>,
           <<"a", "v", "e", "r", "y", "l", "o", "n", "g", "d", "o", "m", "a", "i", "n", "n", "a", "m", "e", "e", "x", "a", "m", "p", "l", "e", ".", "n", "e", "t">> >>)
  => call.value.bestChoice = <<"s", "h", "o", "r", "t", ".", "c", "o", "m">>

(***************************************************************************)
(* C12: the analyses of one compareDomains call are in flight together,     *)
(* and in whatever order their pricing lookups complete the returned        *)
(* domains list is in input order and bestChoice is the one the input       *)
(* order determines.                                                        *)
(***************************************************************************)
\* the overallScore computed for input i of the call, before any lookup
\* has completed
ScoreOfInput(i) == tasks[i].locals.metrics.overallScore

\* the inputs whose score is above 0 and above every earlier input's score
\* and not below any later one's
Winners ==
  {i \in 1..Len(tasks) :
     /\ Gt(ScoreOfInput(i), Num(0))
     /\ \A j \in 1..Len(tasks) :
          isNaN(ScoreOfInput(j)) \/ Le(ScoreOfInput(j), ScoreOfInput(i))
     /\ \A j \in 1..(i - 1) :
          isNaN(ScoreOfInput(j)) \/ Lt(ScoreOfInput(j), ScoreOfInput(i))}

C12_ResultsInInputOrder ==
  call.op = "compareDomains" =>
    /\ Len(tasks) = Len(call.args)
    /\ \A i \in 1..Len(tasks) : tasks[i].raw = call.args[i]
    /\ Len(pricingCalls) = Cardinality(Analyzed)
    /\ call.status = "fulfilled" =>
         /\ Len(call.value.domains) = Len(call.args)
         /\ \A i \in 1..Len(call.args) :
              /\ call.value.domains[i] = tasks[i].value
              /\ call.value.domains[i].domain = ClaimedClean(call.args[i])
              /\ call.value.domains[i].metrics = tasks[i].locals.metrics
         /\ \A i \in Winners : call.value.bestChoice = tasks[i].locals.domain
         /\ Winners = {} => call.value.bestChoice = <<>>
         /\ Cardinality(Winners) <= 1

\* compareDomains(['short.com', 'shore.com']), a tie, has returned after
\* the lookup of shore.com completed first
C12_Witness ==
  /\ call.op = "compareDomains"
  /\ call.status = "fulfilled"
  /\ call.args = << <<"s", "h", "o", "r", "t", ".", "c", "o", "m">>,
                    <<"s", "h", "o", "r", "e", ".", "c", "o", "m">> >>
  /\ tasks[1].settled = 2
  /\ tasks[2].settled = 1
  /\ ScoreOfInput(1) = ScoreOfInput(2)
  /\ call.value.domains[1].domain = <<"s", "h", "o", "r", "t", ".", "c", "o", "m">>
  /\ call.value.bestChoice = <<"s", "h", "o", "r", "t", ".", "c", "o", "m">>

Components == {"length", "memorability", "brandability", "keywordPlacement", "domainExtension"}

\* a common denominator of the five component scores of m
CommonDen(m) ==
  m.length[2] * m.memorability[2] * m.brandability[2]
    * m.keywordPlacement[2] * m.domainExtension[2]

\* 100 * CommonDen(m) times the weighted sum of the values stored in m
WeightedSum(m) ==
  LET D == CommonDen(m)
      part(x, w) == w * x[1] * (D \div x[2])
  IN  part(m.length, 15) + 20 * (IF m.hasKeywords THEN 7 ELSE 3) * D
        + part(m.memorability, 20) + part(m.brandability, 15)
        + part(m.keywordPlacement, 15) + part(m.domainExtension, 15)

\* n is an integer nearest to WeightedSum(m) / (100 * CommonDen(m))
NearestInteger(n, m) ==
  LET diff == WeightedSum(m) - n * 100 * CommonDen(m)
  IN  2 * (IF diff < 0 THEN -diff ELSE diff) <= 100 * CommonDen(m)

C14_OverallScoreIsRoundedWeightedSum ==
  \A i \in Analyzed :
    LET m == tasks[i].locals.metrics
    IN  /\ IF \E c \in Components : m[c][2] = 0
             THEN m.overallScore[2] = 0
             ELSE /\ m.overallScore[2] = 1
                  /\ NearestInteger(m.overallScore[1], m)
        /\ tasks[i].state = "fulfilled" => tasks[i].value.metrics = m

\* example.com has been analyzed: 1.5 + 0.6 + 2.308 + 1.5 + 0.45 + 1.5 = 7.858
\* gives overallScore 8
C14_Witness ==
  \E i \in Returned :
    /\ tasks[i].name = <<"e", "x", "a", "m", "p", "l", "e">>
    /\ tasks[i].extension = <<"c", "o", "m">>
    /\ tasks[i].value.metrics.length = <<10, 1>>
    /\ ~tasks[i].value.metrics.hasKeywords
    /\ tasks[i].value.metrics.memorability = <<577, 50>>
    /\ tasks[i].value.metrics.brandability = <<10, 1>>
    /\ tasks[i].value.metrics.keywordPlacement = <<3, 1>>
    /\ tasks[i].value.metrics.domainExtension = <<10, 1>>
    /\ tasks[i].value.metrics.overallScore = <<8, 1>>

(***************************************************************************)
(* C15: each of length, memorability, brandability, keywordPlacement and    *)
(* domainExtension lies in [1, 10].  Fails: memorability is 10 plus up to   *)
(* 2 points of ratio score (11.54 for 'example'), a 15-character name has   *)
(* length score 13.5, a keyword in segment 5 or later gives a               *)
(* keywordPlacement of 0 or less, and an inherited extension key gives a    *)
(* value that is not a number.                                              *)
(***************************************************************************)
\* checked on the well-formed host names among the cleaned strings, where
\* it already fails
C15_ComponentScoresInRange ==
  \A i \in Analyzed :
    WellFormedHost(tasks[i].locals.domain) =>
      \A c \in Components : Inside(tasks[i].locals.metrics[c], 1, 10)

(***************************************************************************)
(* C16: above the ideal band the length score only decays: for L >= 14,     *)
(* lengthScore(L + 1) <= lengthScore(L); a name longer than 14 characters   *)
(* never scores higher than a 14-character name; the score is never below   *)
(* 1.  Fails: lengthScore(14) = 10 but lengthScore(15) = 13.5, and the      *)
(* score stays above 10 up to 21 characters.                                *)
(***************************************************************************)
C16_LengthScoreOnlyDecays ==
  (probe.fn = "calculateLengthScore" /\ probe.arg > 14) =>
    /\ Le(probe.out, calculateLengthScore(probe.arg - 1))
    /\ Le(probe.out, calculateLengthScore(14))
    /\ Le(Num(1), probe.out)

(***************************************************************************)
(* C17: hasKeywords is true exactly when some keyword of the fixed list     *)
(* occurs in name as a substring, or is a segment of name split on '-',     *)
(* or is a segment of name split on '.'; it is false for 'example'.         *)
(***************************************************************************)
\* word occurs in s at some offset
OccursIn(word, s) ==
  \E off \in 0..(Len(s) - Len(word)) : \A k \in 1..Len(word) : s[off + k] = word[k]

\* positions a..b of s are a segment of s split on the characters seps: a
\* maximal run without separator (empty when b = a - 1)
IsSegment(s, a, b, seps) ==
  /\ 1 <= a /\ a <= b + 1 /\ b <= Len(s)
  /\ a = 1 \/ s[a - 1] \in seps
  /\ b = Len(s) \/ s[b + 1] \in seps
  /\ \A k \in a..b : s[k] \notin seps

\* word is the segment of s that starts at position a
SegmentAt(word, s, a, seps) ==
  /\ IsSegment(s, a, a + Len(word) - 1, seps)
  /\ \A k \in 1..Len(word) : s[a + k - 1] = word[k]

KeywordSet == {SEO_FRIENDLY_KEYWORDS[k] : k \in 1..Len(SEO_FRIENDLY_KEYWORDS)}

ClaimedHasKeywords(name) ==
  \E word \in KeywordSet :
    \/ OccursIn(word, name)
    \/ \E a \in 1..(Len(name) + 1) : SegmentAt(word, name, a, {"-"})
    \/ \E a \in 1..(Len(name) + 1) : SegmentAt(word, name, a, {"."})

C17_HasKeywordsIffKeywordOccurs ==
  \A i \in Analyzed :
    /\ tasks[i].locals.metrics.hasKeywords <=> ClaimedHasKeywords(tasks[i].name)
    /\ tasks[i].name = <<"e", "x", "a", "m", "p", "l", "e">> =>
         ~tasks[i].locals.metrics.hasKeywords

\* averylongdomainnameexample.net has been analyzed: 'ai' occurs inside
\* 'domain', and the name has a single segment, which is no keyword
C17_Witness ==
  \E i \in Returned :
    /\ tasks[i].name = <<"a", "v", "e", "r", "y", "l", "o", "n", "g", "d", "o", "m", "a", "i", "n", "n", "a", "m", "e", "e", "x", "a", "m", "p", "l", "e">>
    /\ tasks[i].value.metrics.hasKeywords
    /\ OccursIn(<<"a", "i">>, tasks[i].name)
    /\ ~(\E word \in KeywordSet : SegmentAt(word, tasks[i].name, 1, {"-", "."}))

(***************************************************************************)
(* C18: keywordPlacement splits name on '-', '_' and '.'; when the first    *)
(* segment that is a keyword has index i (from 0) the score is 10 - 2 i,    *)
(* without clamping, and when no segment is a keyword it is 3; for          *)
(* 'myseo-app' it is 8.                                                     *)
(***************************************************************************)
PlacementSeparators == {"-", "_", "."}

\* the indices (from 0) of the segments of name that are keywords: the
\* index of a segment is the number of separators in front of it
KeywordSegments(name) ==
  { Cardinality({p \in 1..(a - 1) : name[p] \in PlacementSeparators}) :
      a \in {b \in 1..(Len(name) + 1) :
               \E word \in KeywordSet : SegmentAt(word, name, b, PlacementSeparators)} }

ClaimedPlacement(name) ==
  LET found == KeywordSegments(name)
  IN  IF found = {} THEN 3
      ELSE 10 - 2 * (CHOOSE i \in found : \A j \in found : i <= j)

C18_KeywordPlacementByFirstSegment ==
  \A i \in Analyzed :
    /\ tasks[i].locals.metrics.keywordPlacement = <<ClaimedPlacement(tasks[i].name), 1>>
    /\ tasks[i].name = <<"m", "y", "s", "e", "o", "-", "a", "p", "p">> =>
         tasks[i].locals.metrics.keywordPlacement = <<8, 1>>

\* https://www.myseo-app.io/page has been analyzed: 'app' is segment 1
C18_Witness ==
  \E i \in Returned :
    /\ tasks[i].raw = <<"h", "t", "t", "p", "s", ":", "/", "/", "w", "w", "w", ".", "m", "y", "s", "e", "o", "-", "a", "p", "p", ".", "i", "o", "/", "p", "a", "g", "e">>
    /\ tasks[i].name = <<"m", "y", "s", "e", "o", "-", "a", "p", "p">>
    /\ KeywordSegments(tasks[i].name) = {1}
    /\ tasks[i].value.metrics.keywordPlacement = <<8, 1>>

(***************************************************************************)
(* C19: memorability = max(1, 10 - 0.5 min(5, 1.5 hyphens)                  *)
(* - 0.3 min(5, digits) + 0.2 ratioScore), hyphens and digits being the     *)
(* numbers of '-' and of digit characters in name and ratioScore the        *)
(* vowel/consonant component; for 'site123' the digit penalty is 3.         *)
(***************************************************************************)
Smaller(a, b) == IF a < b THEN a ELSE b
Larger(a, b)  == IF a < b THEN b ELSE a

HyphensIn(name) == Cardinality({p \in 1..Len(name) : name[p] = "-"})
DigitsIn(name)  == Cardinality({p \in 1..Len(name) : name[p] \in Digits})

\* 20 times (10 - 0.5 min(5, 1.5 hyphens) - 0.3 min(5, digits))
TwentyTimesBase(name) ==
  200 - Smaller(50, 15 * HyphensIn(name)) - 6 * Smaller(5, DigitsIn(name))

\* m = max(1, base + 0.2 r) for the rationals m and r, multiplied out by
\* 20 and by both denominators
IsMemorability(m, name, r) ==
  20 * m[1] * r[2] = m[2] * Larger(20 * r[2], TwentyTimesBase(name) * r[2] + 4 * r[1])

C19_MemorabilityFormula ==
  \A i \in Analyzed :
    /\ IsMemorability(tasks[i].locals.metrics.memorability, tasks[i].name,
                      vcRatioScoreOf(tasks[i].name))
    /\ tasks[i].name = <<"s", "i", "t", "e", "1", "2", "3">> =>
         /\ Smaller(5, DigitsIn(tasks[i].name)) = 3
         /\ TwentyTimesBase(tasks[i].name) = 200 - 18

\* site123.net has been analyzed: 10 - 0.3 * 3 + 0.2 * 7.2 = 10.54
C19_Witness ==
  \E i \in Returned :
    /\ tasks[i].name = <<"s", "i", "t", "e", "1", "2", "3">>
    /\ DigitsIn(tasks[i].name) = 3
    /\ vcRatioScoreOf(tasks[i].name) = <<36, 5>>
    /\ tasks[i].value.metrics.memorability = <<527, 50>>

(***************************************************************************)
(* C20: with ratio = vowels / max(consonants, 1) and consonants = length    *)
(* - vowels - hyphens - digits, the ratio component of memorability is 10   *)
(* for a ratio in [0.4, 0.6] and outside the band falls from 10 by 2        *)
(* points per 0.1 of distance from the nearer band edge.  Fails: outside    *)
(* the band the code computes 8 - 2 min(3, distance).                       *)
(***************************************************************************)
VowelsIn(name) == Cardinality({p \in 1..Len(name) : name[p] \in Vowels})

\* max(consonants, 1)
ConsonantsOrOne(name) ==
  Larger(1, Len(name) - VowelsIn(name) - HyphensIn(name) - DigitsIn(name))

\* 0.4 <= ratio <= 0.6
RatioInBand(name) ==
  /\ 4 * ConsonantsOrOne(name) <= 10 * VowelsIn(name)
  /\ 10 * VowelsIn(name) <= 6 * ConsonantsOrOne(name)

RatioAboveBand(name) == 10 * VowelsIn(name) > 6 * ConsonantsOrOne(name)

\* the rational x equals n / d
Equals(x, n, d) == x[2] # 0 /\ x[1] * d = x[2] * n

C20_RatioScoreFallsFromTen ==
  probe.fn = "vcRatioScore" =>
    LET v == VowelsIn(probe.arg)
        c == ConsonantsOrOne(probe.arg)
    IN  IF RatioInBand(probe.arg) THEN probe.out = <<10, 1>>
        ELSE IF RatioAboveBand(probe.arg)
          \* 10 - 20 (v / c - 0.6)
          THEN Equals(probe.out, 22 * c - 20 * v, c)
          \* 10 - 20 (0.4 - v / c)
          ELSE Equals(probe.out, 2 * c + 20 * v, c)

\* C20 as amended: outside the band the component is 8 - 2 min(3, distance
\* from the nearer band edge): 8 at the edge, 0.2 points less per 0.1 of
\* distance, 2 from a distance of 3 on
C20_RatioScoreFallsFromEight ==
  probe.fn = "vcRatioScore" =>
    LET v == VowelsIn(probe.arg)
        c == ConsonantsOrOne(probe.arg)
    IN  IF RatioInBand(probe.arg) THEN probe.out = <<10, 1>>
        ELSE IF RatioAboveBand(probe.arg)
          THEN IF 10 * v <= 36 * c
                 \* 8 - 2 (v / c - 0.6)
                 THEN Equals(probe.out, 46 * c - 10 * v, 5 * c)
                 ELSE probe.out = <<2, 1>>
          \* 8 - 2 (0.4 - v / c)
          ELSE Equals(probe.out, 36 * c + 10 * v, 5 * c)

\* the ratio score of 'example' (3 vowels, 4 consonants, ratio 0.75) is
\* 8 - 2 * 0.15 = 7.7
C20_Witness ==
  /\ probe.fn = "vcRatioScore"
  /\ probe.arg = <<"e", "x", "a", "m", "p", "l", "e">>
  /\ VowelsIn(probe.arg) = 3
  /\ ConsonantsOrOne(probe.arg) = 4
  /\ probe.out = <<77, 10>>

(***************************************************************************)
(* C21: brandability is max(1, 0.4 uniqueness + 0.3 lengthComponent + 0.3   *)
(* cleanliness), with uniqueness = 10 - min(5, 2k) for k hyphen-separated   *)
(* words of name that are list keywords, lengthComponent 10 for 3 < length  *)
(* < 12, 7 for length <= 3 and 10 - min(5, 0.5 (length - 12)) otherwise,    *)
(* cleanliness = 10 - 3 (a digit) - 5 (a character outside a-z, 0-9, '-');  *)
(* cleanliness can be negative before the floor, and the result is never    *)
(* below 1.  Fails: cleanliness is never below 10 - 3 - 5 = 2.              *)
(***************************************************************************)
\* the number of segments of name split on '-' that are list keywords
KeywordWordsIn(name) ==
  Cardinality({a \in 1..(Len(name) + 1) :
                 \E word \in KeywordSet : SegmentAt(word, name, a, {"-"})})

LowerLetters == {LowerCase[k] : k \in 1..26}

SpecialsIn(name) ==
  Cardinality({p \in 1..Len(name) : name[p] \notin (LowerLetters \cup Digits \cup {"-"})})

ClaimedUniqueness(name) == 10 - Smaller(5, 2 * KeywordWordsIn(name))

\* twice the length component
TwiceLengthComponent(name) ==
  IF 3 < Len(name) /\ Len(name) < 12 THEN 20
  ELSE IF Len(name) <= 3 THEN 14
  ELSE 20 - Smaller(10, Len(name) - 12)

ClaimedCleanliness(name) ==
  10 - (IF DigitsIn(name) > 0 THEN 3 ELSE 0) - (IF SpecialsIn(name) > 0 THEN 5 ELSE 0)

\* b = max(1, 0.4 u + 0.3 l + 0.3 c), multiplied out by 40
IsBrandability(b, name) ==
  /\ b[2] # 0
  /\ 40 * b[1] =
       b[2] * Larger(40, 16 * ClaimedUniqueness(name) + 6 * TwiceLengthComponent(name)
                           + 12 * ClaimedCleanliness(name))

\* with both penalties, where cleanliness is least, cleanliness is negative
C21_CleanlinessCanBeNegative ==
  \A i \in Analyzed :
    /\ IsBrandability(tasks[i].locals.metrics.brandability, tasks[i].name)
    /\ cleanlinessScoreOf(tasks[i].name) = Num(ClaimedCleanliness(tasks[i].name))
    /\ Le(Num(1), tasks[i].locals.metrics.brandability)
    /\ DigitsIn(tasks[i].name) > 0 /\ SpecialsIn(tasks[i].name) > 0 =>
         Lt(cleanlinessScoreOf(tasks[i].name), Num(0))

\* C21 as amended: the same formula; cleanliness is one of 10, 7, 5 and 2,
\* so it is never negative, and the result is never below 1
C21_BrandabilityFormula ==
  \A i \in Analyzed :
    /\ IsBrandability(tasks[i].locals.metrics.brandability, tasks[i].name)
    /\ cleanlinessScoreOf(tasks[i].name) = Num(ClaimedCleanliness(tasks[i].name))
    /\ ClaimedCleanliness(tasks[i].name) \in {10, 7, 5, 2}
    /\ Le(Num(1), tasks[i].locals.metrics.brandability)

\* web_2.com has been analyzed: a digit and a special character, cleanliness
\* 2, brandability 0.4 * 10 + 0.3 * 10 + 0.3 * 2 = 7.6
C21_Witness ==
  \E i \in Returned :
    /\ tasks[i].name = <<"w", "e", "b", "_", "2">>
    /\ DigitsIn(tasks[i].name) > 0 /\ SpecialsIn(tasks[i].name) > 0
    /\ cleanlinessScoreOf(tasks[i].name) = Num(2)
    /\ tasks[i].value.metrics.brandability = <<38, 5>>

(***************************************************************************)
(* C22: within one analysis these pairs never both appear: the strengths    *)
(* 'Premium TLD' and 'Solid domain extension'; the weaknesses 'Very short   *)
(* domain name' and 'Lengthy domain name'; the recommendations 'Consider a  *)
(* slightly longer domain name...' and 'Shorter domain names are typically  *)
(* more memorable...'.                                                      *)
(***************************************************************************)
NotBoth(list, x, y) == ~(x \in Range(list) /\ y \in Range(list))

C22_ExclusivePairs ==
  \A i \in Analyzed :
    /\ NotBoth(tasks[i].locals.strengths, "Premium TLD", "Solid domain extension")
    /\ NotBoth(tasks[i].locals.weaknesses, "Very short domain name", "Lengthy domain name")
    /\ NotBoth(tasks[i].locals.recommendations,
               "Consider a slightly longer domain name for better SEO impact.",
               "Shorter domain names are typically more memorable and easier to type.")

\* abcdefghijklmno.net has been analyzed: length score 13.5 and extension
\* score 8 give one member of each pair
C22_Witness ==
  \E i \in Returned :
    /\ "Solid domain extension" \in Range(tasks[i].value.strengths)
    /\ "Lengthy domain name" \in Range(tasks[i].value.weaknesses)
    /\ "Shorter domain names are typically more memorable and easier to type."
         \in Range(tasks[i].value.recommendations)

\* the other members: a name of at most 5 characters under .com (length
\* score 5, extension score 10) has been analyzed
C22_WitnessOthers ==
  \E i \in Returned :
    /\ "Consider a slightly longer domain name for better SEO impact."
         \in Range(tasks[i].value.recommendations)
    /\ "Premium TLD" \in Range(tasks[i].value.strengths)

(***************************************************************************)
(* C23: the weakness 'Contains hyphens' is reported exactly when name       *)
(* contains '-', and 'Contains numbers' exactly when name contains a digit; *)
(* they depend on the name only and come after all metric-based weaknesses  *)
(* in the list.                                                             *)
(***************************************************************************)
NameWeaknesses == {"Contains hyphens", "Contains numbers"}

C23_NameWeaknesses ==
  \A i \in Analyzed :
    LET weaknesses == tasks[i].locals.weaknesses
    IN  /\ "Contains hyphens" \in Range(weaknesses) <=> HyphensIn(tasks[i].name) > 0
        /\ "Contains numbers" \in Range(weaknesses) <=> DigitsIn(tasks[i].name) > 0
        /\ \A p, q \in 1..Len(weaknesses) :
             weaknesses[p] \in NameWeaknesses /\ weaknesses[q] \notin NameWeaknesses
               => q < p

\* a name with a hyphen and a digit has been analyzed, and a metric-based
\* weakness precedes the two name-based ones
C23_Witness ==
  \E i \in Returned :
    LET weaknesses == tasks[i].value.weaknesses
    IN  /\ HyphensIn(tasks[i].name) > 0 /\ DigitsIn(tasks[i].name) > 0
        /\ Len(weaknesses) >= 3
        /\ weaknesses[Len(weaknesses) - 1] = "Contains hyphens"
        /\ weaknesses[Len(weaknesses)] = "Contains numbers"
        /\ weaknesses[1] \notin NameWeaknesses

(***************************************************************************)
(* C24: in every analysis the key set of strengthDetails is the set of the  *)
(* strengths, the key set of weaknessDetails the set of the weaknesses and  *)
(* the key set of recommendationDetails the set of the recommendations.     *)
(***************************************************************************)
KeysMatch(details, items) == DOMAIN details = Range(items)

C26_PlacementImpliesKeywords ==
  \A i \in Analyzed :
    LET metrics == tasks[i].locals.metrics
    IN  /\ metrics.keywordPlacement # Num(3) => metrics.hasKeywords
        /\ "Optimal keyword placement" \in Range(tasks[i].locals.strengths) =>
             /\ "Contains relevant keywords" \in Range(tasks[i].locals.strengths)
             /\ "Lacks relevant keywords" \notin Range(tasks[i].locals.weaknesses)

\* an analysis has returned with a keyword segment in second place
\* (keywordPlacement 8) and both strengths
C26_Witness ==
  \E i \in Returned :
    /\ tasks[i].value.metrics.keywordPlacement = Num(8)
    /\ tasks[i].value.metrics.hasKeywords
    /\ "Optimal keyword placement" \in Range(tasks[i].value.strengths)
    /\ "Contains relevant keywords" \in Range(tasks[i].value.strengths)

(***************************************************************************)
(* C27: memorability is at least 6.4 and at most 12 (its floor of 1 never   *)
(* takes effect), so the weakness 'Low memorability' (memorability < 6) is  *)
(* never reported.                                                          *)
(***************************************************************************)
C27_MemorabilityBetween ==
  \A i \in Analyzed :
    /\ Le(Frac(64, 10), tasks[i].locals.metrics.memorability)
    /\ Le(tasks[i].locals.metrics.memorability, Num(12))
    /\ "Low memorability" \notin Range(tasks[i].locals.weaknesses)

\* the least value: aaaa----12345 (both penalties at their cap 5, ratio
\* score 2) has been analyzed with memorability 10 - 2.5 - 1.5 + 0.4
C27_Witness ==
  \E i \in Returned :
    /\ HyphensIn(tasks[i].name) >= 4 /\ DigitsIn(tasks[i].name) >= 5
    /\ vcRatioScoreOf(tasks[i].name) = Num(2)
    /\ tasks[i].value.metrics.memorability = Frac(64, 10)
    /\ "Low memorability" \notin Range(tasks[i].value.weaknesses)

\* the greatest value: a name without hyphen and digit and with a ratio in
\* the band has been analyzed with memorability 12
C27_WitnessGreatest ==
  \E i \in Returned :
    /\ HyphensIn(tasks[i].name) = 0 /\ DigitsIn(tasks[i].name) = 0
    /\ tasks[i].value.metrics.memorability = Num(12)

(***************************************************************************)
(* C28: the insight rules compare the length score, not the number of       *)
(* characters: 'Very short domain name' is reported exactly when name has   *)
(* at least 33 characters, and never for a name of 1 to 5 characters,       *)
(* whose length score is 5.                                                 *)
(***************************************************************************)
C28_VeryShortIffThirtyThree ==
  \A i \in Analyzed :
    /\ "Very short domain name" \in Range(tasks[i].locals.weaknesses)
         <=> Len(tasks[i].name) >= 33
    /\ Len(tasks[i].name) \in 1..5 =>
         /\ tasks[i].locals.metrics.length = Num(5)
         /\ "Very short domain name" \notin Range(tasks[i].locals.weaknesses)

\* a name of 33 characters has been analyzed: length score 14 - 9.5 = 4.5
C28_Witness ==
  \E i \in Returned :
    /\ Len(tasks[i].name) = 33
    /\ tasks[i].value.metrics.length = Frac(9, 2)
    /\ "Very short domain name" \in Range(tasks[i].value.weaknesses)

\* a name of one character has been analyzed without the weakness
C28_WitnessShort ==
  \E i \in Returned :
    /\ Len(tasks[i].name) = 1
    /\ "Very short domain name" \notin Range(tasks[i].value.weaknesses)

(***************************************************************************)
(* C29: in every state reachable by signUp, signIn, signOut, page reload,   *)
(* passage of time and updateUsage, a signed-in user on the free tier       *)
(* whose trial has ended has dailyUsage <= 5, the limit the user menu       *)
(* shows as 'Daily Usage: n/5'.  Fails: the analyses made during the trial  *)
(* are counted without limit and the count is kept when the trial ends.     *)
(***************************************************************************)
\* the user menu shows 'Daily Usage: n/5': signed in, free tier, trial over
FreeUserSignedIn ==
  /\ auth.user # null
  /\ auth.user.tier = "free"
  /\ ~isInTrial(auth.user, auth.now)

C29_FreeUsageWithinLimit ==
  FreeUserSignedIn => auth.user.dailyUsage <= FreeLimit

(***************************************************************************)
(* C30: the free limit is per day: a signed-in free user whose trial has    *)
(* ended is refused by updateUsage only for analyses of the current         *)
(* calendar day; once the date has changed the user is accepted again, and  *)
(* usage counted on an earlier day never causes a refusal.  Fails:          *)
(* updateUsage never compares lastUsageDate with the current date.          *)
(***************************************************************************)
\* when all counted usage is of an earlier day, updateUsage accepts
C30_EarlierDaysNeverRefuse ==
  FreeUserSignedIn /\ auth.user.lastUsageDate # getCurrentDate(auth.now)
    => updateUsage(auth).canProceed

(***************************************************************************)
(* C25: compareDomains is all-or-nothing: if at least one input of the      *)
(* list fails normalization, the whole call fails with 'Invalid domain      *)
(* name' and no DomainComparison is returned, even when the other domains   *)
(* are valid and their pricing lookups complete; the page then shows no     *)
(* results for any of them.                                                 *)
(***************************************************************************)
ComparisonWithInvalidInput ==
  /\ call.op = "compareDomains"
  /\ \E i \in 1..Len(tasks) : tasks[i].state = "rejected"

C25_CompareAllOrNothing ==
  ComparisonWithInvalidInput =>
    /\ call.status \in {"pending", "rejected"}
    /\ "value" \notin DOMAIN call
    /\ call.status = "rejected" => call.error = "Invalid domain name"
    /\ analyzer.results = <<>>
    /\ analyzer.comparison = null
    /\ "Analysis complete" \notin analyzer.toasts
    /\ ~analyzer.showAnalytics
    /\ ~analyzer.isAnalyzing => "Analysis failed" \in analyzer.toasts

\* short.com and ab have been compared: the analysis of short.com has
\* returned with its pricing, the call has failed and the page has resumed
C25_Witness ==
  /\ ComparisonWithInvalidInput
  /\ \E i \in Returned : tasks[i].priced
  /\ call.status = "rejected"
  /\ call.error = "Invalid domain name"
  /\ ~analyzer.isAnalyzing
  /\ analyzer.results = <<>>
  /\ "Analysis failed" \in analyzer.toasts

=============================================================================
